---- MODULE Spec2Model ----
(***************************************************************************)
(* A model of the Jeux game server (yankunm/Jeux): the client registry,    *)
(* the client sessions with their invitation lists, invitations, games,    *)
(* players and their ratings, the per-connection service loop and the      *)
(* SIGHUP shutdown.                                                        *)
(*                                                                         *)
(* Spec       the server with one atomic action per request handler        *)
(* SpecLogin  client_login step by step, for concurrent LOGINs             *)
(* SpecPost   player_post_result step by step, for concurrent results      *)
(* SpecCreg   the client registry's semaphores, call by call               *)
(* SpecNet    the send lock and its initialisation in client_create        *)
(* SpecPlay   the handlers between sessions that are logged in             *)
(* SpecRelog  the handlers and LOGIN after a session has gone              *)
(* SpecMain   main from its command line to exit                           *)
(* SpecHdr    the static packet headers, store by store                    *)
(* SpecGame   one game, move by move                                       *)
(* SpecList   one invitation list under client_add_invitation and          *)
(*            client_remove_invitation                                     *)
(* SpecRace   two handlers on one invitation, call by call, with the       *)
(*            session and invitation mutexes                               *)
(***************************************************************************)
EXTENDS Integers, Sequences, FiniteSets, TLC

\* ------------------------------------------------------------------ bounds

\* connections accepted over a run of Spec (one service thread and CLIENT each)
NConns == 2
\* slots of the client registry (MAX_CLIENTS of client_registry.h, scaled down)
MAX_CLIENTS == 2
\* invitations alive at the same time
MaxInv == 2
\* results posted to the ratings over a run of Spec
MaxPosts == 2
\* steps of a run of Spec
MaxSteps == 7

\* ------------------------------------------------------- program constants

PLAYER_INITIAL_RATING == 1500
ListBlock == 10
NULL_ROLE == 0
FIRST_PLAYER_ROLE == 1
SECOND_PLAYER_ROLE == 2

Conns == 1..NConns
Names == {"alice", "bob"}
NoPlayer == "<null>"
NoClient == 0
NoInvId == 0
NoPayload == ""

\* role bytes an INVITE may carry: the roles, NULL_ROLE, and a byte that is no role
RoleBytes == {0, 1, 2, 255}
\* id bytes a request may carry (ListBlock is past a one-block list)
IdBytes == {0, 1, ListBlock}

\* --------------------------------------------------------------- game.c

NoGame == [winner |-> -1, nextmover |-> 0, board |-> <<>>]

game_create == [winner |-> -1, nextmover |-> 1, board |-> [i \in 1..9 |-> 0]]

role_to_xo(role) ==
    IF role = 1 THEN "X" ELSE IF role = 2 THEN "O" ELSE IF role = 0 THEN " " ELSE "?"

\* board cell k of the C array is board[k+1]
check(board) ==
    IF \A i \in 1..9 : board[i] # 0 THEN 0
    ELSE IF board[3] = board[5] /\ board[3] = board[7] /\ board[3] # 0 THEN board[3]
    ELSE IF board[1] = board[5] /\ board[1] = board[9] /\ board[1] # 0 THEN board[1]
    ELSE IF board[3] = board[6] /\ board[3] = board[9] /\ board[3] # 0 THEN board[3]
    ELSE IF board[2] = board[5] /\ board[2] = board[8] /\ board[2] # 0 THEN board[2]
    ELSE IF board[1] = board[4] /\ board[1] = board[7] /\ board[1] # 0 THEN board[1]
    ELSE IF board[7] = board[8] /\ board[7] = board[9] /\ board[7] # 0 THEN board[7]
    ELSE IF board[4] = board[5] /\ board[4] = board[6] /\ board[4] # 0 THEN board[4]
    ELSE IF board[1] = board[2] /\ board[1] = board[3] /\ board[1] # 0 THEN board[1]
    ELSE -1

\* atoi of a one-character string
Atoi1(ch) ==
    CASE ch = "1" -> 1 [] ch = "2" -> 2 [] ch = "3" -> 3 [] ch = "4" -> 4
      [] ch = "5" -> 5 [] ch = "6" -> 6 [] ch = "7" -> 7 [] ch = "8" -> 8
      [] ch = "9" -> 9 [] OTHER -> 0

NoMove == [spot |-> -2, role |-> -1]

\* a move string is a sequence of characters; only str[0] is read
game_parse_move(game, role, str) ==
    IF role < 0 \/ role > 2 THEN NoMove
    ELSE IF role = NULL_ROLE /\ role # game.nextmover THEN NoMove
    ELSE [spot |-> Atoi1(IF Len(str) = 0 THEN "" ELSE str[1]) - 1, role |-> role]

\* the game after the call and the value returned
game_apply_move(game, move) ==
    IF move.spot < 0 \/ move.spot > 8 THEN [game |-> game, ret |-> -1]
    ELSE IF move.role < 1 \/ move.role > 2 THEN [game |-> game, ret |-> -1]
    ELSE IF game.winner # -1 THEN [game |-> game, ret |-> -1]
    ELSE IF game.board[move.spot + 1] # 0 THEN [game |-> game, ret |-> -1]
    ELSE LET b == [game.board EXCEPT ![move.spot + 1] = move.role]
         IN  [game |-> [winner |-> check(b),
                        nextmover |-> IF game.nextmover = 1 THEN 2 ELSE 1,
                        board |-> b],
              ret |-> 0]

game_resign(game, role) ==
    IF role # 1 /\ role # 2 THEN [game |-> game, ret |-> -1]
    ELSE IF game.winner # -1 THEN [game |-> game, ret |-> -1]
    ELSE [game |-> [game EXCEPT !.winner = IF role = 1 THEN SECOND_PLAYER_ROLE
                                                       ELSE FIRST_PLAYER_ROLE],
          ret |-> 0]

game_is_over(game) == game.winner # -1

game_get_winner(game) == game.winner

BoardRow(board, r) ==
    role_to_xo(board[3 * r + 1]) \o "|" \o role_to_xo(board[3 * r + 2]) \o "|"
        \o role_to_xo(board[3 * r + 3]) \o "\n"

\* fill_string: the 40 characters of the rendered state
game_unparse_state(game) ==
    BoardRow(game.board, 0) \o "-----\n" \o BoardRow(game.board, 1) \o "-----\n"
        \o BoardRow(game.board, 2) \o role_to_xo(game.nextmover) \o " to move\n"

\* --------------------------------------------------------------- player.c

\* C's integer division, which truncates towards zero
TruncDiv(a, b) == IF a >= 0 THEN a \div b ELSE -((-a) \div b)

RECURSIVE Pow10(_)
Pow10(k) == IF k <= 0 THEN 1 ELSE 10 * Pow10(k - 1)

\* (int)(32*(S - E)) with E = 1/(1 + 10^e) and S = s2/2, computed exactly:
\* e >= 0: 16*(s2*(1+T) - 2)/(1+T), e < 0: 16*(s2*(T+1) - 2T)/(T+1), T = 10^|e|
EloDelta(s2, e) ==
    LET T == Pow10(IF e >= 0 THEN e ELSE -e)
    IN  IF e >= 0 THEN TruncDiv(16 * (s2 * (1 + T) - 2), 1 + T)
        ELSE TruncDiv(16 * (s2 * (T + 1) - 2 * T), T + 1)

\* twice the scores S1, S2 of a result; <<>> when the result is none of 0, 1, 2
Scores2(result) ==
    IF result = 0 THEN <<1, 1>> ELSE IF result = 1 THEN <<2, 0>>
    ELSE IF result = 2 THEN <<0, 2>> ELSE <<>>

\* the new ratings <<R1', R2'>> computed from the ratings read
NewRatings(R1, R2, result) ==
    LET s == Scores2(result)
    IN  <<R1 + EloDelta(s[1], TruncDiv(R2 - R1, 400)),
          R2 + EloDelta(s[2], TruncDiv(R1 - R2, 400))>>

\* ------------------------------------------------------------------ state

VARIABLES
    conn,       \* conn[c]: "none", "open", "eof" (reads return 0), "err" (reads and writes fail), "closed"
    pc,         \* pc[c]: the service thread of c: "idle", "loop" (in its service loop), "done"
    login,      \* login[c]: the service thread's local flag
    client,     \* client[c]: the CLIENT: [player, invlist]; slot k of invlist is invlist[k+1]
    crBuf,      \* the registry's buf: crBuf[k+1] is slot k, a connection or NoClient
    crCount,    \* the registry's count
    crEmpty,    \* the value of the registry's semaphore empty
    inv,        \* inv[i]: the INVITATION i, or NoInv when i is free
    pregNames,  \* the names the player registry holds
    rating,     \* rating[n]: the rating of player n
    posts,      \* results posted to the ratings so far
    pcMain,     \* the main thread: "accept", "wait" (in terminate, before creg_wait_for_empty), "exited"
    steps,      \* steps taken so far
    th,         \* the threads of the step-by-step specifications: where each is in its call
    sem,        \* semaphore values the step-by-step specifications follow: [crMutex, network];
                \* in SpecRace [cm, im]: each session's mutex and the invitation's
    wire        \* SpecNet: what has been written to the connection, in order: <<thread, part>>;
                \* SpecRace: the packets written, in order

srvVars == <<conn, pc, login, client, crBuf, crCount, crEmpty, inv, pregNames,
             rating, posts, pcMain, steps>>

\* the variables only the step-by-step specifications change
auxVars == <<th, sem, wire>>

vars == <<srvVars, auxVars>>

InvIds == 1..MaxInv

NoInv == [state |-> "FREE", refcnt |-> 0, source |-> NoClient, target |-> NoClient,
          source_role |-> 0, target_role |-> 0, game |-> NoGame]

\* a packet as written to connection `to`
Pkt(to, type, id, role, payload) ==
    [to |-> to, type |-> type, id |-> id, role |-> role, payload |-> payload]

\* The part of the state the client module's functions change: the CLIENTs, the
\* invitations, the ratings, and the packets written so far in this step.
World == [client |-> client, inv |-> inv, rating |-> rating, posts |-> posts, out |-> <<>>]

\* a function's outcome: the world after it and the value it returned
Res(w, ret) == [w |-> w, ret |-> ret]

\* ------------------------------------------------------- protocol (part_001)

\* rio_writen fails on a connection that was reset or closed
WriteFails(c) == conn[c] \notin {"open", "eof"}

\* proto_send_packet: header, then the payload if size > 0
proto_send_packet(w, pkt) ==
    IF WriteFails(pkt.to) THEN Res(w, -1)
    ELSE Res([w EXCEPT !.out = Append(@, pkt)], 0)

\* proto_recv_packet returns -1 only if rio_readn returned -1 (a read error);
\* at end-of-stream rio_readn returns 0 and the function returns 0
proto_recv_packet(c) == IF conn[c] = "err" THEN -1 ELSE 0

\* ------------------------------------------------------------ invitation.c

\* a faulty inv_create that stores the two roles the wrong way round
inv_create_swapped(source, target, source_role, target_role) ==
    [state |-> "OPEN", refcnt |-> 1, source |-> source, target |-> target,
     source_role |-> target_role, target_role |-> source_role, game |-> NoGame]

inv_create(source, target, source_role, target_role) ==
    [state |-> "OPEN", refcnt |-> 1, source |-> source, target |-> target,
     source_role |-> source_role, target_role |-> target_role, game |-> NoGame]

inv_ref(w, i) == [w EXCEPT !.inv[i].refcnt = @ + 1]

\* at reference count zero the invitation is freed
inv_unref(w, i) ==
    IF w.inv[i].refcnt = 1 THEN [w EXCEPT !.inv[i] = NoInv]
    ELSE [w EXCEPT !.inv[i].refcnt = @ - 1]

\* a faulty inv_accept that creates the game and leaves the state OPEN
inv_accept_open(w, i) ==
    IF w.inv[i].state # "OPEN" THEN Res(w, -1)
    ELSE Res([w EXCEPT !.inv[i].game = game_create], 0)

inv_accept(w, i) ==
    IF w.inv[i].state # "OPEN" THEN Res(w, -1)
    ELSE Res([w EXCEPT !.inv[i].state = "ACCEPTED", !.inv[i].game = game_create], 0)

\* a faulty inv_close that puts the invitation of a resigned game back to OPEN
inv_close_reopen(w, i, role) ==
    IF w.inv[i].state # "OPEN" /\ w.inv[i].state # "ACCEPTED" THEN Res(w, -1)
    ELSE IF w.inv[i].game # NoGame
         THEN IF role = NULL_ROLE THEN Res(w, -1)
              ELSE LET r == game_resign(w.inv[i].game, role)
                       w1 == [w EXCEPT !.inv[i].state = "OPEN", !.inv[i].game = r.game]
                   IN  Res(w1, r.ret)
         ELSE Res([w EXCEPT !.inv[i].state = "CLOSED"], 0)

inv_close(w, i, role) ==
    IF w.inv[i].state # "OPEN" /\ w.inv[i].state # "ACCEPTED" THEN Res(w, -1)
    ELSE IF w.inv[i].game # NoGame
         THEN IF role = NULL_ROLE THEN Res(w, -1)
              ELSE LET r == game_resign(w.inv[i].game, role)
                       w1 == [w EXCEPT !.inv[i].state = "CLOSED", !.inv[i].game = r.game]
                   IN  Res(w1, r.ret)
         ELSE Res([w EXCEPT !.inv[i].state = "CLOSED"], 0)

\* ---------------------------------------------------------------- player.c

\* player_post_result run without interruption; a NULL player posts nothing
player_post_result(w, player1, player2, result) ==
    IF player1 = NoPlayer \/ player2 = NoPlayer THEN w
    ELSE IF result \notin {0, 1, 2} THEN w
    ELSE LET n == NewRatings(w.rating[player1], w.rating[player2], result)
             r1 == [w.rating EXCEPT ![player1] = n[1]]
         IN  [w EXCEPT !.rating = [r1 EXCEPT ![player2] = n[2]], !.posts = @ + 1]

\* ---------------------------------------------------------------- client.c

client_send_packet(w, c, type, id, role, payload) ==
    proto_send_packet(w, Pkt(c, type, id, role, payload))

client_send_ack(w, c, payload) == client_send_packet(w, c, "ACK", 0, 0, payload)

client_send_nack(w, c) == client_send_packet(w, c, "NACK", 0, 0, NoPayload)

\* the first slot of a list holding x, or -1
FirstSlot(list, x) ==
    IF \E k \in 1..Len(list) : list[k] = x
    THEN (CHOOSE k \in 1..Len(list) : list[k] = x /\ \A j \in 1..(k - 1) : list[j] # x) - 1
    ELSE -1

Block == [k \in 1..ListBlock |-> NoInvId]

\* a faulty client_add_invitation that takes the highest empty slot
client_add_invitation_last(w, c, i) ==
    LET l0 == w.client[c].invlist
        l1 == IF Len(l0) = 0 THEN Block ELSE l0
        free == {k \in 1..Len(l1) : l1[k] = NoInvId}
        l2 == IF free = {} THEN l1 \o Block ELSE l1
        index == IF free = {} THEN Len(l1)
                 ELSE (CHOOSE k \in free : \A j \in free : j <= k) - 1
        w1 == [w EXCEPT !.client[c].invlist = [l2 EXCEPT ![index + 1] = i]]
    IN  Res(inv_ref(w1, i), index)

client_add_invitation(w, c, i) ==
    LET l0 == w.client[c].invlist
        l1 == IF Len(l0) = 0 THEN Block ELSE l0
        free == FirstSlot(l1, NoInvId)
        l2 == IF free = -1 THEN l1 \o Block ELSE l1
        index == IF free = -1 THEN Len(l1) ELSE free
        w1 == [w EXCEPT !.client[c].invlist = [l2 EXCEPT ![index + 1] = i]]
    IN  Res(inv_ref(w1, i), index)

\* a faulty client_remove_invitation that reports the slot and leaves it filled
client_remove_invitation_kept(w, c, i) ==
    Res(w, FirstSlot(w.client[c].invlist, i))

client_remove_invitation(w, c, i) ==
    LET k == FirstSlot(w.client[c].invlist, i)
    IN  IF k = -1 THEN Res(w, -1)
        ELSE Res(inv_unref([w EXCEPT !.client[c].invlist[k + 1] = NoInvId], i), k)

\* creg_lookup: the first registered CLIENT logged in under `user`, or NoClient
creg_lookup(cl, user) ==
    LET hit(k) == crBuf[k] # NoClient /\ cl[crBuf[k]].player # NoPlayer
                    /\ cl[crBuf[k]].player = user
    IN  IF \E k \in 1..MAX_CLIENTS : hit(k)
        THEN crBuf[CHOOSE k \in 1..MAX_CLIENTS : hit(k) /\ \A j \in 1..(k - 1) : ~hit(j)]
        ELSE NoClient

\* a faulty client_login that refuses a name the player registry already holds
client_login_new(w, c, name) ==
    IF w.client[c].player # NoPlayer THEN Res(w, -1)
    ELSE IF name \in pregNames THEN Res(w, -1)
    ELSE Res([w EXCEPT !.client[c].player = name], 0)

\* client_login run without interruption
client_login(w, c, name) ==
    IF w.client[c].player # NoPlayer THEN Res(w, -1)
    ELSE IF creg_lookup(w.client, name) # NoClient THEN Res(w, -1)
    ELSE Res([w EXCEPT !.client[c].player = name], 0)

\* i is the INVITATION that inv_create allocates
client_make_invitation(w, i, source, target, source_role, target_role) ==
    LET w0 == [w EXCEPT !.inv[i] = inv_create(source, target, source_role, target_role)]
        a == client_add_invitation(w0, source, i)
        b == client_add_invitation(a.w, target, i)
        s == client_send_packet(b.w, target, "INVITED", b.ret, target_role,
                                w.client[source].player)
    IN  IF s.ret = -1 THEN Res(s.w, -1)
        ELSE Res(inv_unref(s.w, i), a.ret)

client_revoke_invitation(w, c, id) ==
    LET l == w.client[c].invlist
    IN  IF id >= Len(l) THEN Res(w, -1)
        ELSE IF l[id + 1] = NoInvId THEN Res(w, -1)
        ELSE LET i == l[id + 1]
                 t == w.inv[i].target
                 a == client_remove_invitation(inv_ref(w, i), c, i)
                 b == client_remove_invitation(a.w, t, i)
                 s == client_send_packet(b.w, t, "REVOKED", b.ret, 0, NoPayload)
             IN  IF c # w.inv[i].source THEN Res(w, -1)
                 ELSE IF w.inv[i].game # NoGame THEN Res(w, -1)
                 ELSE IF a.ret = -1 THEN Res(inv_unref(a.w, i), -1)
                 ELSE IF b.ret = -1 THEN Res(inv_unref(b.w, i), -1)
                 ELSE Res(inv_unref(s.w, i), s.ret)

client_decline_invitation(w, c, id) ==
    LET l == w.client[c].invlist
    IN  IF id >= Len(l) THEN Res(w, -1)
        ELSE IF l[id + 1] = NoInvId THEN Res(w, -1)
        ELSE LET i == l[id + 1]
                 src == w.inv[i].source
                 a == client_remove_invitation(inv_ref(w, i), c, i)
                 b == client_remove_invitation(a.w, src, i)
                 s == client_send_packet(b.w, src, "DECLINED", b.ret, 0, NoPayload)
             IN  IF c # w.inv[i].target THEN Res(w, -1)
                 ELSE IF w.inv[i].game # NoGame THEN Res(w, -1)
                 ELSE IF a.ret = -1 THEN Res(inv_unref(a.w, i), -1)
                 ELSE IF b.ret = -1 THEN Res(inv_unref(b.w, i), -1)
                 ELSE Res(inv_unref(s.w, i), s.ret)

\* str is *strp: the payload of the ACK, NoPayload for NULL
client_accept_invitation(w, c, id) ==
    LET l == w.client[c].invlist
        fail(x) == [w |-> x, ret |-> -1, str |-> NoPayload]
    IN  IF id >= Len(l) THEN fail(w)
        ELSE IF l[id + 1] = NoInvId THEN fail(w)
        ELSE LET i == l[id + 1]
                 src == w.inv[i].source
                 index == FirstSlot(w.client[src].invlist, i)
                 acc == inv_accept(inv_ref(w, i), i)
                 state == game_unparse_state(acc.w.inv[i].game)
                 first == acc.w.inv[i].source_role = 1
                 s == client_send_packet(acc.w, src, "ACCEPTED", index, 0,
                                         IF first THEN state ELSE NoPayload)
             IN  IF c # w.inv[i].target THEN fail(w)
                 ELSE IF w.inv[i].game # NoGame THEN fail(w)
                 ELSE IF index = -1 THEN fail(w)
                 ELSE IF acc.ret = -1 THEN fail(inv_unref(acc.w, i))
                 ELSE IF s.ret = -1 THEN fail(inv_unref(s.w, i))
                 ELSE [w |-> inv_unref(s.w, i), ret |-> 0,
                       str |-> IF first THEN NoPayload ELSE state]

\* The end of a game, as client_resign_game and client_make_move write it out in
\* each branch: ENDED to the caller with its own id, ENDED to the opponent with
\* oppid, both removals, and the result posted with the target as player1.
EndGame(w, c, id, i, opp, oppid, role) ==
    LET e1 == client_send_packet(w, c, "ENDED", id, role, NoPayload)
        e2 == client_send_packet(e1.w, opp, "ENDED", oppid, role, NoPayload)
        r1 == client_remove_invitation(e2.w, c, i)
        r2 == client_remove_invitation(r1.w, opp, i)
    IN  IF e1.ret = -1 THEN Res(inv_unref(e1.w, i), -1)
        ELSE IF e2.ret = -1 THEN Res(inv_unref(e2.w, i), -1)
        ELSE IF r1.ret = -1 THEN Res(inv_unref(r1.w, i), -1)
        ELSE IF r2.ret = -1 THEN Res(inv_unref(r2.w, i), -1)
        ELSE Res(inv_unref(
                   player_post_result(r2.w,
                                      r2.w.client[r2.w.inv[i].target].player,
                                      r2.w.client[r2.w.inv[i].source].player,
                                      game_get_winner(r2.w.inv[i].game)), i), 0)

client_resign_game(w, c, id) ==
    LET l == w.client[c].invlist
    IN  IF id >= Len(l) THEN Res(w, -1)
        ELSE IF l[id + 1] = NoInvId THEN Res(w, -1)
        ELSE IF w.inv[l[id + 1]].game = NoGame THEN Res(w, -1)
        ELSE LET i == l[id + 1]
                 w1 == inv_ref(w, i)
                 isSource == c = w.inv[i].source
                 opp == IF isSource THEN w.inv[i].target ELSE w.inv[i].source
                 myrole == IF isSource THEN w.inv[i].source_role ELSE w.inv[i].target_role
                 opprole == IF isSource THEN w.inv[i].target_role ELSE w.inv[i].source_role
                 oppid == FirstSlot(w.client[opp].invlist, i)
                 cl == inv_close(w1, i, myrole)
                 s == client_send_packet(cl.w, opp, "RESIGNED", oppid, 0, NoPayload)
             IN  IF oppid = -1 THEN Res(inv_unref(w1, i), -1)
                 ELSE IF cl.ret = -1 THEN Res(inv_unref(cl.w, i), -1)
                 ELSE IF s.ret = -1 THEN Res(inv_unref(s.w, i), -1)
                 ELSE IF game_is_over(s.w.inv[i].game)
                      THEN EndGame(s.w, c, id, i, opp, oppid, opprole)
                 ELSE Res(inv_unref(s.w, i), 0)

\* In the target's branch the loop over the source's list stores the index it
\* finds in targetid; sourceid, which MOVED and ENDED carry, keeps its initial 0.
MovedId(isSource, found) == IF isSource THEN found ELSE 0

client_make_move(w, c, id, move) ==
    LET l == w.client[c].invlist
    IN  IF id >= Len(l) THEN Res(w, -1)
        ELSE IF l[id + 1] = NoInvId THEN Res(w, -1)
        ELSE IF w.inv[l[id + 1]].game = NoGame THEN Res(w, -1)
        ELSE LET i == l[id + 1]
                 game == w.inv[i].game
                 w1 == inv_ref(w, i)
                 isSource == c = w.inv[i].source
                 opp == IF isSource THEN w.inv[i].target ELSE w.inv[i].source
                 myrole == IF isSource THEN w.inv[i].source_role ELSE w.inv[i].target_role
                 found == FirstSlot(w.client[opp].invlist, i)
                 oppid == MovedId(isSource, found)
                 pmove == game_parse_move(game, myrole, move)
                 ap == game_apply_move(game, pmove)
                 w2 == [w1 EXCEPT !.inv[i].game = ap.game]
                 s == client_send_packet(w2, opp, "MOVED", oppid, 0,
                                         game_unparse_state(ap.game))
             IN  IF found = -1 THEN Res(inv_unref(w1, i), -1)
                 ELSE IF pmove = NoMove THEN Res(inv_unref(w1, i), -1)
                 ELSE IF ap.ret = -1 THEN Res(inv_unref(w1, i), -1)
                 ELSE IF s.ret = -1 THEN Res(inv_unref(s.w, i), -1)
                 ELSE IF game_is_over(ap.game)
                      THEN EndGame(s.w, c, id, i, opp, oppid, game_get_winner(ap.game))
                 ELSE Res(inv_unref(s.w, i), 0)

\* the loop of client_logout from slot k on
RECURSIVE LogoutFrom(_, _, _)
LogoutFrom(w, c, k) ==
    IF k >= Len(w.client[c].invlist) THEN w
    ELSE IF w.client[c].invlist[k + 1] = NoInvId THEN LogoutFrom(w, c, k + 1)
    ELSE LET i == w.client[c].invlist[k + 1]
             j == IF c = w.inv[i].source THEN client_revoke_invitation(w, c, k)
                  ELSE client_decline_invitation(w, c, k)
         IN  IF j.ret = -1 THEN LogoutFrom(client_resign_game(w, c, k).w, c, k + 1)
             ELSE LogoutFrom(j.w, c, k + 1)

client_logout(w, c) ==
    IF w.client[c].player = NoPlayer THEN Res(w, -1)
    ELSE Res(LogoutFrom([w EXCEPT !.client[c].player = NoPlayer], c, 0), 0)

\* --------------------------------------------------------------- server.c

\* what a client may send: LOGIN and INVITE carry a name, MOVE a move string
Moves == {<<"1">>, <<"2">>, <<"3">>, <<"0">>, <<"2", "<", "-", "X">>}

Req(type, id, role, arg) == [type |-> type, id |-> id, role |-> role, arg |-> arg]

Requests ==
    {Req("LOGIN", 0, 0, <<n>>) : n \in Names}
    \cup {Req("USERS", 0, 0, <<>>), Req("OTHER", 0, 0, <<>>)}
    \cup {Req("INVITE", 0, r, <<n>>) : r \in RoleBytes, n \in Names}
    \cup {Req(t, id, 0, <<>>) : t \in {"REVOKE", "DECLINE", "ACCEPT", "RESIGN"}, id \in IdBytes}
    \cup {Req("MOVE", id, 0, m) : id \in IdBytes, m \in Moves}

FreeInv == {i \in InvIds : inv[i] = NoInv}

\* the payload of the ACK to USERS: a line "name<TAB>rating" for each slot of
\* the registry that holds a logged-in CLIENT, in slot order
RECURSIVE UsersText(_, _)
UsersText(w, k) ==
    IF k > MAX_CLIENTS THEN ""
    ELSE IF crBuf[k] # NoClient /\ w.client[crBuf[k]].player # NoPlayer
         THEN w.client[crBuf[k]].player \o "\t"
                \o ToString(w.rating[w.client[crBuf[k]].player]) \o "\n"
                \o UsersText(w, k + 1)
         ELSE UsersText(w, k + 1)

\* a faulty answer that says nothing when the handler failed
AnswerQuiet(r, c, id, payload) ==
    IF r.ret # 0 THEN r.w
    ELSE client_send_packet(r.w, c, "ACK", id, 0, payload).w

\* the handler's answer: ACK (as given) when it returned 0, NACK otherwise
Answer(r, c, id, payload) ==
    IF r.ret # 0 THEN client_send_nack(r.w, c).w
    ELSE LET a == client_send_packet(r.w, c, "ACK", id, 0, payload)
         IN  IF a.ret # 0 THEN client_send_nack(a.w, c).w ELSE a.w

\* a faulty service loop that lacks the branch for sessions that have not
\* logged in, and so answers USERS for them
DispatchNoGate(w, c, req) ==
    LET out(x, lg, pn, ret) == [w |-> x, login |-> lg, preg |-> pn, ret |-> ret]
        nack == out(client_send_nack(w, c).w, login[c], pregNames, -1)
    IN  IF req.type = "LOGIN"
        THEN IF login[c] THEN nack
             ELSE LET r == client_login(w, c, req.arg[1])
                  IN  out(Answer(r, c, 0, NoPayload), r.ret = 0,
                          pregNames \cup {req.arg[1]}, r.ret)
        ELSE IF req.type = "USERS"
        THEN out(client_send_ack(w, c, UsersText(w, 1)).w, login[c], pregNames, 0)
        ELSE nack

\* One iteration of the service loop of jeux_client_service for the packet req:
\* the state after it, the thread's login flag, the player registry and the
\* value the handler returned.
Dispatch(w, c, req) ==
    LET out(x, lg, pn, ret) == [w |-> x, login |-> lg, preg |-> pn, ret |-> ret]
        nack == out(client_send_nack(w, c).w, login[c], pregNames, -1)
    IN  IF req.type = "LOGIN"
        THEN IF login[c] THEN nack
             ELSE LET r == client_login(w, c, req.arg[1])
                  IN  out(Answer(r, c, 0, NoPayload), r.ret = 0,
                          pregNames \cup {req.arg[1]}, r.ret)
        ELSE IF ~login[c] THEN nack
        ELSE IF req.type = "USERS"
        THEN out(client_send_ack(w, c, UsersText(w, 1)).w, TRUE, pregNames, 0)
        ELSE IF req.type = "INVITE"
        THEN LET target == creg_lookup(w.client, req.arg[1])
                 source_role == IF req.role = 1 THEN 2 ELSE 1
                 i == CHOOSE j \in FreeInv : \A k \in FreeInv : j <= k
                 r == client_make_invitation(w, i, c, target, source_role, req.role)
             IN  IF target = NoClient THEN nack
                 ELSE out(Answer(Res(r.w, IF r.ret = -1 THEN -1 ELSE 0), c, r.ret, NoPayload),
                          TRUE, pregNames, r.ret)
        ELSE IF req.type = "REVOKE"
        THEN LET r == client_revoke_invitation(w, c, req.id)
             IN  out(Answer(r, c, 0, NoPayload), TRUE, pregNames, r.ret)
        ELSE IF req.type = "DECLINE"
        THEN LET r == client_decline_invitation(w, c, req.id)
             IN  out(Answer(r, c, 0, NoPayload), TRUE, pregNames, r.ret)
        ELSE IF req.type = "ACCEPT"
        THEN LET r == client_accept_invitation(w, c, req.id)
             IN  out(Answer(r, c, req.id, r.str), TRUE, pregNames, r.ret)
        ELSE IF req.type = "MOVE"
        THEN LET r == client_make_move(w, c, req.id, req.arg)
             IN  out(Answer(r, c, 0, NoPayload), TRUE, pregNames, r.ret)
        ELSE IF req.type = "RESIGN"
        THEN LET r == client_resign_game(w, c, req.id)
             IN  out(Answer(r, c, 0, NoPayload), TRUE, pregNames, r.ret)
        ELSE nack

\* ------------------------------------------------ the server, Spec

NewClient == [player |-> NoPlayer, invlist |-> <<>>]

InitServer ==
    /\ conn = [c \in Conns |-> "none"]
    /\ pc = [c \in Conns |-> "idle"]
    /\ login = [c \in Conns |-> FALSE]
    /\ client = [c \in Conns |-> NewClient]
    /\ crBuf = [k \in 1..MAX_CLIENTS |-> NoClient]
    /\ crCount = 0
    /\ crEmpty = 1
    /\ inv = [i \in InvIds |-> NoInv]
    /\ pregNames = {}
    /\ rating = [n \in Names |-> PLAYER_INITIAL_RATING]
    /\ posts = 0
    /\ pcMain = "accept"
    /\ steps = 0

\* both semaphores are created with value 1 (creg_init, init_network)
InitAux ==
    /\ th = <<>>
    /\ sem = [crMutex |-> 1, network |-> 1]
    /\ wire = <<>>

\* the process is alive; MaxSteps bounds the length of a run
Running == pcMain \in {"accept", "wait"} /\ steps < MaxSteps

Step == steps' = steps + 1 /\ UNCHANGED auxVars

FreeSlots == {k \in 1..MAX_CLIENTS : crBuf[k] = NoClient}

\* A connection: main's Accept hands out the lowest free descriptor and
\* Pthread_create starts jeux_client_service, which runs up to its service
\* loop: creg_register (the thread blocks in P(&cr->empty) when count is 0 and
\* the semaphore is 0), and Close(connfd) when the registry is full.
Connect(c) ==
    /\ Running
    /\ Step
    /\ pcMain = "accept"
    /\ conn[c] = "none"
    /\ \A d \in Conns : d < c => conn[d] # "none"
    /\ crCount = 0 /\ FreeSlots # {} => crEmpty > 0
    /\ IF FreeSlots # {}
       THEN /\ crBuf' = [crBuf EXCEPT ![CHOOSE k \in FreeSlots : \A j \in FreeSlots : k <= j] = c]
            /\ crEmpty' = IF crCount = 0 THEN crEmpty - 1 ELSE crEmpty
            /\ crCount' = crCount + 1
            /\ conn' = [conn EXCEPT ![c] = "open"]
            /\ pc' = [pc EXCEPT ![c] = "loop"]
       ELSE /\ conn' = [conn EXCEPT ![c] = "closed"]
            /\ pc' = [pc EXCEPT ![c] = "done"]
            /\ UNCHANGED <<crBuf, crCount, crEmpty>>
    /\ UNCHANGED <<login, client, inv, pregNames, rating, posts, pcMain>>

\* The CLIENT d was unregistered, which drops the registry's reference to it;
\* it is freed once no INVITATION holds a reference to it either (inv_create
\* takes one for the source and one for the target, inv_unref drops them when
\* the INVITATION is freed).
Freed(d) ==
    /\ d # NoClient
    /\ pc[d] = "done"
    /\ \A i \in InvIds : inv[i] # NoInv => d \notin {inv[i].source, inv[i].target}

\* slot k of c's list holds an invitation whose source or target was freed
Stale(c, k) ==
    /\ k < Len(client[c].invlist)
    /\ client[c].invlist[k + 1] # NoInvId
    /\ LET i == client[c].invlist[k + 1]
       IN  Freed(inv[i].source) \/ Freed(inv[i].target)

\* The request makes the handler follow an invitation of c's list to a CLIENT
\* that was freed. What the process does then is not defined; the model takes
\* no step for such a request.
Dangling(c, req) ==
    /\ login[c]
    /\ req.type \in {"REVOKE", "DECLINE", "ACCEPT", "MOVE", "RESIGN"}
    /\ Stale(c, req.id)

Served(c, req) ==
    /\ ~Dangling(c, req)
    /\ req.type = "INVITE" /\ login[c] => FreeInv # {}
    /\ LET d == Dispatch(World, c, req)
       IN  /\ d.w.posts <= MaxPosts
           /\ client' = d.w.client
           /\ inv' = d.w.inv
           /\ rating' = d.w.rating
           /\ posts' = d.w.posts
           /\ login' = [login EXCEPT ![c] = d.login]
           /\ pregNames' = d.preg

\* an iteration of the service loop on a packet the client sent
Recv(c, req) ==
    /\ Running
    /\ Step
    /\ pc[c] = "loop"
    /\ conn[c] = "open"
    /\ proto_recv_packet(c) = 0
    /\ Served(c, req)
    /\ UNCHANGED <<conn, pc, crBuf, crCount, crEmpty, pcMain>>

\* an iteration of the service loop at end-of-stream: rio_readn returns 0,
\* proto_recv_packet returns 0 and the loop dispatches what the header and the
\* payload buffer hold, which nothing has written in this iteration
RecvEof(c, req) ==
    /\ Running
    /\ Step
    /\ pc[c] = "loop"
    /\ conn[c] = "eof"
    /\ proto_recv_packet(c) = 0
    /\ Served(c, req)
    /\ UNCHANGED <<conn, pc, crBuf, crCount, crEmpty, pcMain>>

\* The service loop ends when proto_recv_packet returns -1: the thread logs the
\* client out if its login flag is set, calls creg_unregister and Close(connfd)
\* and ends.
Exit(c) ==
    /\ Running
    /\ Step
    /\ pc[c] = "loop"
    /\ proto_recv_packet(c) = -1
    /\ login[c] => \A k \in 0..(Len(client[c].invlist) - 1) : ~Stale(c, k)
    /\ LET r == IF login[c] THEN client_logout(World, c) ELSE Res(World, 0)
       IN  /\ r.w.posts <= MaxPosts
           /\ client' = r.w.client
           /\ inv' = r.w.inv
           /\ rating' = r.w.rating
           /\ posts' = r.w.posts
    /\ crBuf' = [k \in 1..MAX_CLIENTS |-> IF crBuf[k] = c THEN NoClient ELSE crBuf[k]]
    /\ crCount' = crCount - 1
    /\ crEmpty' = IF crCount - 1 = 0 THEN crEmpty + 1 ELSE crEmpty
    /\ conn' = [conn EXCEPT ![c] = "closed"]
    /\ pc' = [pc EXCEPT ![c] = "done"]
    /\ UNCHANGED <<login, pregNames, pcMain>>

\* the client closes its end: the server's reads return 0 from now on
ConnClose(c) ==
    /\ Running
    /\ Step
    /\ conn[c] = "open"
    /\ conn' = [conn EXCEPT ![c] = "eof"]
    /\ UNCHANGED <<pc, login, client, crBuf, crCount, crEmpty, inv, pregNames, rating,
                   posts, pcMain>>

\* the connection is reset: the server's reads and writes fail from now on
ConnReset(c) ==
    /\ Running
    /\ Step
    /\ conn[c] \in {"open", "eof"}
    /\ conn' = [conn EXCEPT ![c] = "err"]
    /\ UNCHANGED <<pc, login, client, crBuf, crCount, crEmpty, inv, pregNames, rating,
                   posts, pcMain>>

\* shutdown(fd, SHUT_RD) on every registered CLIENT
creg_shutdown_all ==
    [c \in Conns |-> IF (\E k \in 1..MAX_CLIENTS : crBuf[k] = c) /\ conn[c] = "open"
                     THEN "eof" ELSE conn[c]]

\* SIGHUP: handler closes the listening socket and calls terminate, which
\* shuts the connections down and goes on to creg_wait_for_empty
Sighup ==
    /\ Running
    /\ Step
    /\ pcMain = "accept"
    /\ conn' = creg_shutdown_all
    /\ pcMain' = "wait"
    /\ UNCHANGED <<pc, login, client, crBuf, crCount, crEmpty, inv, pregNames, rating,
                   posts>>

\* terminate from creg_wait_for_empty, which is P(&cr->empty), to exit(status)
Terminate ==
    /\ Running
    /\ Step
    /\ pcMain = "wait"
    /\ crEmpty > 0
    /\ crEmpty' = crEmpty - 1
    /\ pcMain' = "exited"
    /\ UNCHANGED <<conn, pc, login, client, crBuf, crCount, inv, pregNames, rating,
                   posts>>

NextServer ==
    \/ \E c \in Conns : Connect(c)
    \/ \E c \in Conns, req \in Requests : Recv(c, req)
    \/ \E c \in Conns, req \in Requests : RecvEof(c, req)
    \/ \E c \in Conns : Exit(c)
    \/ \E c \in Conns : ConnClose(c)
    \/ \E c \in Conns : ConnReset(c)
    \/ Sighup
    \/ Terminate

Init == InitServer /\ InitAux
Next == NextServer
Spec == Init /\ [][Next]_vars

\* ------------------------------------- client_login step by step, SpecLogin

\* the sessions the registry holds in SpecLogin, each with its service thread
Sessions == {c \in Conns : c <= MAX_CLIENTS}

\* the server after the Sessions have connected and registered
InitRegistered ==
    /\ conn = [c \in Conns |-> IF c \in Sessions THEN "open" ELSE "none"]
    /\ pc = [c \in Conns |-> IF c \in Sessions THEN "loop" ELSE "idle"]
    /\ login = [c \in Conns |-> FALSE]
    /\ client = [c \in Conns |-> NewClient]
    /\ crBuf = [k \in 1..MAX_CLIENTS |-> IF k \in Sessions THEN k ELSE NoClient]
    /\ crCount = Cardinality(Sessions)
    /\ crEmpty = 0
    /\ inv = [i \in InvIds |-> NoInv]
    /\ pregNames = {}
    /\ rating = [n \in Names |-> PLAYER_INITIAL_RATING]
    /\ posts = 0
    /\ pcMain = "accept"
    /\ steps = 0

InitLogin ==
    /\ InitRegistered
    /\ th = [c \in Sessions |-> [pc |-> "idle", name |-> NoPlayer, ret |-> 0]]
    /\ sem = [crMutex |-> 1, network |-> 1]
    /\ wire = <<>>

\* what the steps of client_login leave alone
LoginFrame == UNCHANGED <<conn, pc, inv, rating, posts, pcMain, steps, sem, wire>>

\* the service loop receives LOGIN name: preg_register, then the call of client_login
LoginBegin(c, name) ==
    /\ th[c].pc = "idle"
    /\ ~login[c]
    /\ pregNames' = pregNames \cup {name}
    /\ th' = [th EXCEPT ![c] = [pc |-> "check", name |-> name, ret |-> 0]]
    /\ UNCHANGED <<login, client, crBuf, crCount, crEmpty>>
    /\ LoginFrame

\* the first test of client_login: the CLIENT is already logged in
LoginCheck(c) ==
    /\ th[c].pc = "check"
    /\ IF client[c].player # NoPlayer
       THEN th' = [th EXCEPT ![c].pc = "idle", ![c].ret = -1]
       ELSE th' = [th EXCEPT ![c].pc = "lookup"]
    /\ UNCHANGED <<login, client, pregNames, crBuf, crCount, crEmpty>>
    /\ LoginFrame

\* the second test: creg_lookup, which runs under the registry's mutex
LoginLookup(c) ==
    /\ th[c].pc = "lookup"
    /\ IF creg_lookup(client, th[c].name) # NoClient
       THEN th' = [th EXCEPT ![c].pc = "idle", ![c].ret = -1]
       ELSE th' = [th EXCEPT ![c].pc = "set"]
    /\ UNCHANGED <<login, client, pregNames, crBuf, crCount, crEmpty>>
    /\ LoginFrame

\* P(&client->mutex); client->player = player; V(&client->mutex); return 0, and
\* the service loop sets its login flag
LoginSet(c) ==
    /\ th[c].pc = "set"
    /\ client' = [client EXCEPT ![c].player = th[c].name]
    /\ login' = [login EXCEPT ![c] = TRUE]
    /\ th' = [th EXCEPT ![c].pc = "in"]
    /\ UNCHANGED <<pregNames, crBuf, crCount, crEmpty>>
    /\ LoginFrame

\* the session ends: client_logout clears client->player (its list is empty)
LoginOut(c) ==
    /\ th[c].pc = "in"
    /\ client' = [client EXCEPT ![c].player = NoPlayer]
    /\ th' = [th EXCEPT ![c].pc = "out"]
    /\ UNCHANGED <<login, pregNames, crBuf, crCount, crEmpty>>
    /\ LoginFrame

\* and its thread unregisters it
LoginGone(c) ==
    /\ th[c].pc = "out"
    /\ crBuf' = [k \in 1..MAX_CLIENTS |-> IF crBuf[k] = c THEN NoClient ELSE crBuf[k]]
    /\ crCount' = crCount - 1
    /\ crEmpty' = IF crCount - 1 = 0 THEN crEmpty + 1 ELSE crEmpty
    /\ th' = [th EXCEPT ![c].pc = "gone"]
    /\ UNCHANGED <<login, client, pregNames>>
    /\ LoginFrame

NextLogin ==
    \/ \E c \in Sessions, name \in Names : LoginBegin(c, name)
    \/ \E c \in Sessions : LoginCheck(c)
    \/ \E c \in Sessions : LoginLookup(c)
    \/ \E c \in Sessions : LoginSet(c)
    \/ \E c \in Sessions : LoginOut(c)
    \/ \E c \in Sessions : LoginGone(c)

SpecLogin == InitLogin /\ [][NextLogin]_vars

Registered(c) == \E k \in 1..MAX_CLIENTS : crBuf[k] = c

\* C1: in every reachable state, under any interleaving of LOGIN requests from
\* different sessions, at most one registered session is logged in as a given
\* username.
C1_OneSessionPerName ==
    \A c, d \in Conns :
        (c # d /\ Registered(c) /\ Registered(d) /\ client[c].player # NoPlayer)
            => client[c].player # client[d].player


\* ------------------------------- player_post_result step by step, SpecPost

\* the threads that post a result, one call each
PostThreads == 1..MaxPosts

PostIdle == [pc |-> "idle", player1 |-> NoPlayer, player2 |-> NoPlayer, result |-> 0,
             R1 |-> 0, R2 |-> 0]

\* the server with its sessions registered; the calls name the two players
InitPost ==
    /\ InitRegistered
    /\ th = [t \in PostThreads |-> PostIdle]
    /\ sem = [crMutex |-> 1, network |-> 1]
    /\ wire = <<>>

PostFrame == UNCHANGED <<conn, pc, login, client, crBuf, crCount, crEmpty, inv, pregNames,
                         pcMain, steps, sem, wire>>

\* a thread that ended a game between two different players calls
\* player_post_result; the scores are set from result
PostCall(t, player1, player2, result) ==
    /\ th[t].pc = "idle"
    /\ player1 # player2
    /\ th' = [th EXCEPT ![t] = [PostIdle EXCEPT !.pc = "read1", !.player1 = player1,
                                                 !.player2 = player2, !.result = result]]
    /\ UNCHANGED <<rating, posts>>
    /\ PostFrame

\* int R1 = player1->rating;
PostRead1(t) ==
    /\ th[t].pc = "read1"
    /\ th' = [th EXCEPT ![t].pc = "read2", ![t].R1 = rating[th[t].player1]]
    /\ UNCHANGED <<rating, posts>>
    /\ PostFrame

\* int R2 = player2->rating; and the new R1, R2 computed from the two values read
PostRead2(t) ==
    /\ th[t].pc = "read2"
    /\ LET n == NewRatings(th[t].R1, rating[th[t].player2], th[t].result)
       IN  th' = [th EXCEPT ![t].pc = "write1", ![t].R1 = n[1], ![t].R2 = n[2]]
    /\ UNCHANGED <<rating, posts>>
    /\ PostFrame

\* P(&player1->mutex); player1->rating = R1; V(&player1->mutex);
PostWrite1(t) ==
    /\ th[t].pc = "write1"
    /\ rating' = [rating EXCEPT ![th[t].player1] = th[t].R1]
    /\ th' = [th EXCEPT ![t].pc = "write2"]
    /\ UNCHANGED posts
    /\ PostFrame

\* P(&player2->mutex); player2->rating = R2; V(&player2->mutex);
PostWrite2(t) ==
    /\ th[t].pc = "write2"
    /\ rating' = [rating EXCEPT ![th[t].player2] = th[t].R2]
    /\ posts' = posts + 1
    /\ th' = [th EXCEPT ![t].pc = "done"]
    /\ PostFrame

NextPost ==
    \/ \E t \in PostThreads, p1 \in Names, p2 \in Names, r \in 0..2 : PostCall(t, p1, p2, r)
    \/ \E t \in PostThreads : PostRead1(t)
    \/ \E t \in PostThreads : PostRead2(t)
    \/ \E t \in PostThreads : PostWrite1(t)
    \/ \E t \in PostThreads : PostWrite2(t)

SpecPost == InitPost /\ [][NextPost]_vars

RECURSIVE SumRatings(_)
SumRatings(S) ==
    IF S = {} THEN 0
    ELSE LET n == CHOOSE x \in S : TRUE IN rating[n] + SumRatings(S \ {n})

\* C2: for any interleaving of player_post_result calls, once all calls have
\* completed the sum of all players' ratings equals the sum before them.
C2_SumConserved ==
    (\A t \in PostThreads : th[t].pc \in {"idle", "done"})
        => SumRatings(Names) = Cardinality(Names) * PLAYER_INITIAL_RATING


\* --------------------------- the client registry call by call, SpecCreg

\* service threads, each registering its own CLIENT: one more than the registry holds
CregThreads == 1..(MAX_CLIENTS + 1)
\* threads that call creg_wait_for_empty
NWaiters == 2
Waiters == 1..NWaiters

\* the registry as creg_init leaves it
InitCreg ==
    /\ InitServer
    /\ th = [reg |-> [t \in CregThreads |-> "idle"],
             ret |-> [t \in CregThreads |-> [register |-> "none", unregister |-> "none"]],
             wait |-> [k \in Waiters |-> "idle"],
             drop |-> {}]
    /\ sem = [crMutex |-> 1, network |-> 1]
    /\ wire = <<>>

CregFrame == UNCHANGED <<conn, pc, login, client, inv, pregNames, rating, posts, pcMain,
                         steps, wire>>

\* creg_register: P(&cr->mutex)
CregRegLock(t) ==
    /\ th.reg[t] = "idle"
    /\ sem.crMutex > 0
    /\ sem' = [sem EXCEPT !.crMutex = @ - 1]
    /\ th' = [th EXCEPT !.reg[t] = "reg"]
    /\ UNCHANGED <<crBuf, crCount, crEmpty>>
    /\ CregFrame

\* a faulty creg_register that counts a CLIENT for which it found no slot
CregRegSlotCounted(t) ==
    /\ th.reg[t] = "reg"
    /\ IF FreeSlots = {}
       THEN /\ th' = [th EXCEPT !.reg[t] = "count"]
            /\ UNCHANGED <<crBuf, sem>>
       ELSE /\ crBuf' = [crBuf EXCEPT ![CHOOSE k \in FreeSlots : \A j \in FreeSlots : k <= j] = t]
            /\ th' = [th EXCEPT !.reg[t] = "count"]
            /\ UNCHANGED sem
    /\ UNCHANGED <<crCount, crEmpty>>
    /\ CregFrame

\* the loop over the slots: the first NULL slot takes the CLIENT; with no NULL
\* slot, V(&cr->mutex) and return NULL (the service thread then closes the
\* connection and ends)
CregRegSlot(t) ==
    /\ th.reg[t] = "reg"
    /\ IF FreeSlots = {}
       THEN /\ sem' = [sem EXCEPT !.crMutex = @ + 1]
            /\ th' = [th EXCEPT !.reg[t] = "idle", !.ret[t].register = "NULL"]
            /\ UNCHANGED crBuf
       ELSE /\ crBuf' = [crBuf EXCEPT ![CHOOSE k \in FreeSlots : \A j \in FreeSlots : k <= j] = t]
            /\ th' = [th EXCEPT !.reg[t] = "count"]
            /\ UNCHANGED sem
    /\ UNCHANGED <<crCount, crEmpty>>
    /\ CregFrame

\* if(cr->count == 0) P(&cr->empty); cr->count++; V(&cr->mutex); return cp
CregRegCount(t) ==
    /\ th.reg[t] = "count"
    /\ crCount = 0 => crEmpty > 0
    /\ crEmpty' = IF crCount = 0 THEN crEmpty - 1 ELSE crEmpty
    /\ crCount' = crCount + 1
    /\ sem' = [sem EXCEPT !.crMutex = @ + 1]
    /\ th' = [th EXCEPT !.reg[t] = "in", !.ret[t].register = "cp"]
    /\ UNCHANGED crBuf
    /\ CregFrame

\* creg_unregister: P(&cr->mutex); the thread passes its registered CLIENT,
\* or once more the CLIENT that an earlier creg_unregister took out
CregUnregLock(t) ==
    /\ \/ th.reg[t] = "in"
       \/ th.reg[t] = "idle" /\ th.ret[t].unregister # "none"
    /\ sem.crMutex > 0
    /\ sem' = [sem EXCEPT !.crMutex = @ - 1]
    /\ th' = [th EXCEPT !.reg[t] = IF th.reg[t] = "in" THEN "unreg" ELSE "absent"]
    /\ UNCHANGED <<crBuf, crCount, crEmpty>>
    /\ CregFrame

\* a faulty creg_unregister that does V(&cr->empty) whatever the count is
CregUnregAlways(t) ==
    /\ th.reg[t] \in {"unreg", "absent"}
    /\ IF \E k \in 1..MAX_CLIENTS : crBuf[k] = t
       THEN /\ crBuf' = [k \in 1..MAX_CLIENTS |-> IF crBuf[k] = t THEN NoClient ELSE crBuf[k]]
            /\ crCount' = crCount - 1
            /\ crEmpty' = crEmpty + 1
            /\ th' = [th EXCEPT !.reg[t] = "idle", !.ret[t].unregister = "0",
                                !.drop = IF crCount - 1 = 0
                                         THEN {k \in Waiters : th.wait[k] = "waiting"} ELSE @]
       ELSE /\ th' = [th EXCEPT !.reg[t] = "idle", !.ret[t].unregister = "-1"]
            /\ UNCHANGED <<crBuf, crCount, crEmpty>>
    /\ sem' = [sem EXCEPT !.crMutex = @ + 1]
    /\ CregFrame

\* the slot is cleared, count decremented, V(&cr->empty) when it is 0, then
\* V(&cr->mutex) and return 0; drop keeps the waiters that were blocked at
\* that moment. With the CLIENT in no slot: V(&cr->mutex) and return -1
CregUnreg(t) ==
    /\ th.reg[t] \in {"unreg", "absent"}
    /\ IF \E k \in 1..MAX_CLIENTS : crBuf[k] = t
       THEN /\ crBuf' = [k \in 1..MAX_CLIENTS |-> IF crBuf[k] = t THEN NoClient ELSE crBuf[k]]
            /\ crCount' = crCount - 1
            /\ crEmpty' = IF crCount - 1 = 0 THEN crEmpty + 1 ELSE crEmpty
            /\ th' = [th EXCEPT !.reg[t] = "idle", !.ret[t].unregister = "0",
                                !.drop = IF crCount - 1 = 0
                                         THEN {k \in Waiters : th.wait[k] = "waiting"} ELSE @]
       ELSE /\ th' = [th EXCEPT !.reg[t] = "idle", !.ret[t].unregister = "-1"]
            /\ UNCHANGED <<crBuf, crCount, crEmpty>>
    /\ sem' = [sem EXCEPT !.crMutex = @ + 1]
    /\ CregFrame

\* a thread calls creg_wait_for_empty
CregWaitCall(k) ==
    /\ th.wait[k] = "idle"
    /\ th' = [th EXCEPT !.wait[k] = "waiting"]
    /\ UNCHANGED <<crBuf, crCount, crEmpty, sem>>
    /\ CregFrame

\* its P(&cr->empty) succeeds and the call returns
CregWaitReturn(k) ==
    /\ th.wait[k] = "waiting"
    /\ crEmpty > 0
    /\ crEmpty' = crEmpty - 1
    /\ th' = [th EXCEPT !.wait[k] = "returned"]
    /\ UNCHANGED <<crBuf, crCount, sem>>
    /\ CregFrame

NextCreg ==
    \/ \E t \in CregThreads : CregRegLock(t)
    \/ \E t \in CregThreads : CregRegSlot(t)
    \/ \E t \in CregThreads : CregRegCount(t)
    \/ \E t \in CregThreads : CregUnregLock(t)
    \/ \E t \in CregThreads : CregUnreg(t)
    \/ \E k \in Waiters : CregWaitCall(k)
    \/ \E k \in Waiters : CregWaitReturn(k)

SpecCreg == InitCreg /\ [][NextCreg]_vars

\* C6: if several threads are blocked in creg_wait_for_empty when the number
\* of registered sessions drops to zero, every one of them returns: a waiter
\* that was blocked at the drop and has not returned yet can go on (the
\* semaphore is positive) while the registry is still empty and idle.
C6_AllWaitersReleased ==
    \A k \in th.drop :
        (/\ Cardinality(th.drop) > 1
         /\ th.wait[k] = "waiting"
         /\ crCount = 0
         /\ \A t \in CregThreads : th.reg[t] = "idle")
        => crEmpty > 0

\* ------------------------------------------------ the send lock, SpecNet

\* threads that send a packet to the same connection, one packet with a payload each
Senders == 1..2
\* connections accepted while the senders run
MaxCreates == 2

InitNet ==
    /\ InitRegistered
    /\ th = [snd |-> [t \in Senders |-> "idle"], made |-> 0]
    /\ sem = [crMutex |-> 1, network |-> 1]
    /\ wire = <<>>

NetFrame == UNCHANGED <<conn, pc, login, client, crBuf, crCount, crEmpty, inv, pregNames,
                        rating, posts, pcMain, steps>>

\* client_send_packet: P(&network)
NetLock(t) ==
    /\ th.snd[t] = "idle"
    /\ sem.network > 0
    /\ sem' = [sem EXCEPT !.network = @ - 1]
    /\ th' = [th EXCEPT !.snd[t] = "hdr"]
    /\ UNCHANGED wire
    /\ NetFrame

\* proto_send_packet: rio_writen of the header
NetHeader(t) ==
    /\ th.snd[t] = "hdr"
    /\ wire' = Append(wire, <<t, "hdr">>)
    /\ th' = [th EXCEPT !.snd[t] = "payload"]
    /\ UNCHANGED sem
    /\ NetFrame

\* proto_send_packet: rio_writen of the payload
NetPayload(t) ==
    /\ th.snd[t] = "payload"
    /\ wire' = Append(wire, <<t, "payload">>)
    /\ th' = [th EXCEPT !.snd[t] = "unlock"]
    /\ UNCHANGED sem
    /\ NetFrame

\* client_send_packet: V(&network)
NetUnlock(t) ==
    /\ th.snd[t] = "unlock"
    /\ sem' = [sem EXCEPT !.network = @ + 1]
    /\ th' = [th EXCEPT !.snd[t] = "done"]
    /\ UNCHANGED wire
    /\ NetFrame

\* client_create for a new connection: its pthread_once_t is a local variable
\* initialised on every call, so init_network runs again: Sem_init(&network, 0, 1)
NetCreate ==
    /\ th.made < MaxCreates
    /\ sem' = [sem EXCEPT !.network = 1]
    /\ th' = [th EXCEPT !.made = @ + 1]
    /\ UNCHANGED wire
    /\ NetFrame

NextNet ==
    \/ \E t \in Senders : NetLock(t)
    \/ \E t \in Senders : NetHeader(t)
    \/ \E t \in Senders : NetPayload(t)
    \/ \E t \in Senders : NetUnlock(t)
    \/ NetCreate

SpecNet == InitNet /\ [][NextNet]_vars

\* C7: at no time are two threads simultaneously writing an outbound packet:
\* each packet's header and payload are written contiguously with no bytes of
\* another packet in between, for any interleaving of senders and of new
\* connections being accepted and registered while a send is in progress.
C7_OneWriter ==
    /\ Cardinality({t \in Senders : th.snd[t] \in {"hdr", "payload"}}) <= 1
    /\ \A n \in 1..Len(wire) :
         wire[n][2] = "hdr" => (n = Len(wire) \/ wire[n + 1] = <<wire[n][1], "payload">>)

\* ------------------------------------ the sessions at play, SpecPlay

\* requests and disconnections of a run of SpecPlay
MaxPlay == 5

\* the names the first sessions have logged in under
PlayNames == <<"alice", "bob">>

\* The server after the Sessions have connected and registered and the first
\* of them have each sent LOGIN with a name of their own and received ACK.
InitPlay ==
    /\ conn = [c \in Conns |-> IF c \in Sessions THEN "open" ELSE "none"]
    /\ pc = [c \in Conns |-> IF c \in Sessions THEN "loop" ELSE "idle"]
    /\ login = [c \in Conns |-> c \in Sessions /\ c <= Len(PlayNames)]
    /\ client = [c \in Conns |->
                   IF c \in Sessions /\ c <= Len(PlayNames)
                   THEN [player |-> PlayNames[c], invlist |-> <<>>] ELSE NewClient]
    /\ crBuf = [k \in 1..MAX_CLIENTS |-> IF k \in Sessions THEN k ELSE NoClient]
    /\ crCount = Cardinality(Sessions)
    /\ crEmpty = 0
    /\ inv = [i \in InvIds |-> NoInv]
    /\ pregNames = {PlayNames[c] : c \in {d \in Sessions : d <= Len(PlayNames)}}
    /\ rating = [n \in Names |-> PLAYER_INITIAL_RATING]
    /\ posts = 0
    /\ pcMain = "accept"
    /\ steps = 0
    /\ InitAux

\* The requests the sessions send in SpecPlay: those that can change an
\* invitation, a list or a game. The others of Requests (LOGIN of a session
\* logged in, USERS, an unknown type, an id past the list, a move string that
\* names no cell) are answered without a change of state.
PlayRequests ==
    {r \in Requests :
        /\ r.type \in {"INVITE", "REVOKE", "DECLINE", "ACCEPT", "MOVE", "RESIGN"}
        /\ r.id < MaxInv
        /\ r.type = "MOVE" => r.arg \in {<<"1">>, <<"2">>, <<"3">>}}

\* an iteration of the service loop of c on a packet the client sent
PlayRecv(c, req) ==
    /\ steps < MaxPlay
    /\ Step
    /\ pc[c] = "loop"
    /\ conn[c] = "open"
    /\ proto_recv_packet(c) = 0
    /\ Served(c, req)
    /\ UNCHANGED <<conn, pc, crBuf, crCount, crEmpty, pcMain>>

\* the connection of c is reset: reads and writes on it fail from now on
PlayReset(c) ==
    /\ steps < MaxPlay
    /\ Step
    /\ conn[c] = "open"
    /\ conn' = [conn EXCEPT ![c] = "err"]
    /\ UNCHANGED <<pc, login, client, crBuf, crCount, crEmpty, inv, pregNames, rating,
                   posts, pcMain>>

\* the read of c's thread fails: logout if logged in, creg_unregister, Close
PlayExit(c) ==
    /\ steps < MaxPlay
    /\ Step
    /\ pc[c] = "loop"
    /\ proto_recv_packet(c) = -1
    /\ LET r == IF login[c] THEN client_logout(World, c) ELSE Res(World, 0)
       IN  /\ r.w.posts <= MaxPosts
           /\ client' = r.w.client
           /\ inv' = r.w.inv
           /\ rating' = r.w.rating
           /\ posts' = r.w.posts
    /\ crBuf' = [k \in 1..MAX_CLIENTS |-> IF crBuf[k] = c THEN NoClient ELSE crBuf[k]]
    /\ crCount' = crCount - 1
    /\ crEmpty' = IF crCount - 1 = 0 THEN crEmpty + 1 ELSE crEmpty
    /\ conn' = [conn EXCEPT ![c] = "closed"]
    /\ pc' = [pc EXCEPT ![c] = "done"]
    /\ UNCHANGED <<login, pregNames, pcMain>>

NextPlay ==
    \/ \E c \in Sessions, req \in PlayRequests : PlayRecv(c, req)
    \/ \E c \in Sessions : PlayReset(c)
    \/ \E c \in Sessions : PlayExit(c)

SpecPlay == InitPlay /\ [][NextPlay]_vars

\* ------------------------------------ a name used again, SpecRelog

\* The server after the Sessions have connected and registered and the first
\* of them has sent LOGIN with the first name and received ACK.
InitRelog ==
    /\ conn = [c \in Conns |-> IF c \in Sessions THEN "open" ELSE "none"]
    /\ pc = [c \in Conns |-> IF c \in Sessions THEN "loop" ELSE "idle"]
    /\ login = [c \in Conns |-> c = 1]
    /\ client = [c \in Conns |->
                   IF c = 1 THEN [player |-> PlayNames[1], invlist |-> <<>>] ELSE NewClient]
    /\ crBuf = [k \in 1..MAX_CLIENTS |-> IF k \in Sessions THEN k ELSE NoClient]
    /\ crCount = Cardinality(Sessions)
    /\ crEmpty = 0
    /\ inv = [i \in InvIds |-> NoInv]
    /\ pregNames = {PlayNames[1]}
    /\ rating = [n \in Names |-> PLAYER_INITIAL_RATING]
    /\ posts = 0
    /\ pcMain = "accept"
    /\ steps = 0
    /\ InitAux

\* the requests of SpecPlay, and LOGIN with each name
RelogRequests == PlayRequests \cup {r \in Requests : r.type = "LOGIN"}

NextRelog ==
    \/ \E c \in Sessions, req \in RelogRequests : PlayRecv(c, req)
    \/ \E c \in Sessions : PlayReset(c)
    \/ \E c \in Sessions : PlayExit(c)

SpecRelog == InitRelog /\ [][NextRelog]_vars

\* --------------------------------------------- main from its start, SpecMain

\* the most arguments on the command line, after the program's name
MaxArgs == 3
\* the words an argument may be: the option, a port, another option
ArgWords == {"-p", "3333", "-d"}
\* command lines: args[k] is argv[k], argc is Len(args) + 1
CommandLines == UNION {[1..n -> ArgWords] : n \in 0..MaxArgs}

NoPort == ""

\* The process at the start of main. In th: the command line, main's index and
\* port_number, whether the listening socket exists, whether SIGHUP has come,
\* and the status passed to exit (-1 while the process runs).
InitMain ==
    /\ conn = [c \in Conns |-> "none"]
    /\ pc = [c \in Conns |-> "idle"]
    /\ login = [c \in Conns |-> FALSE]
    /\ client = [c \in Conns |-> NewClient]
    /\ crBuf = [k \in 1..MAX_CLIENTS |-> NoClient]
    /\ crCount = 0
    /\ crEmpty = 1
    /\ inv = [i \in InvIds |-> NoInv]
    /\ pregNames = {}
    /\ rating = [n \in Names |-> PLAYER_INITIAL_RATING]
    /\ posts = 0
    /\ pcMain = "start"
    /\ steps = 0
    /\ \E a \in CommandLines :
         th = [args |-> a, index |-> 1, port |-> NoPort, listening |-> FALSE,
               hup |-> FALSE, status |-> -1]
    /\ sem = [crMutex |-> 1, network |-> 1]
    /\ wire = <<>>

MainFrame == UNCHANGED <<conn, pc, login, client, crBuf, crCount, inv, pregNames, rating,
                         posts, steps, sem, wire>>

argc == Len(th.args) + 1

\* if(argc < 3) exit(0)
MainArgc ==
    /\ pcMain = "start"
    /\ IF argc < 3
       THEN pcMain' = "exited" /\ th' = [th EXCEPT !.status = 0]
       ELSE pcMain' = "scan" /\ UNCHANGED th
    /\ UNCHANGED crEmpty
    /\ MainFrame

\* one test of while(index < argc) and, inside the loop, one pass of its body
MainScan ==
    /\ pcMain = "scan"
    /\ IF th.index < argc
       THEN IF th.args[th.index] = "-p" /\ th.index < argc - 1
            THEN pcMain' = "check" /\ th' = [th EXCEPT !.port = th.args[th.index + 1]]
            ELSE pcMain' = "scan" /\ th' = [th EXCEPT !.index = @ + 1]
       ELSE pcMain' = "check" /\ UNCHANGED th
    /\ UNCHANGED crEmpty
    /\ MainFrame

\* if(port_number == NULL) exit(0); then creg_init, preg_init and sigaction
MainPort ==
    /\ pcMain = "check"
    /\ IF th.port = NoPort
       THEN pcMain' = "exited" /\ th' = [th EXCEPT !.status = 0]
       ELSE pcMain' = "listen" /\ UNCHANGED th
    /\ UNCHANGED crEmpty
    /\ MainFrame

\* listenfd = Open_listenfd(argv[2]), taken to succeed, and on to Accept
MainListen ==
    /\ pcMain = "listen"
    /\ pcMain' = "accept"
    /\ th' = [th EXCEPT !.listening = TRUE]
    /\ UNCHANGED crEmpty
    /\ MainFrame

\* SIGHUP with no client connected: handler closes listenfd and calls
\* terminate(EXIT_SUCCESS), whose creg_wait_for_empty returns at once
MainHup ==
    /\ pcMain = "accept"
    /\ crEmpty > 0
    /\ crEmpty' = crEmpty - 1
    /\ pcMain' = "exited"
    /\ th' = [th EXCEPT !.listening = FALSE, !.hup = TRUE, !.status = 0]
    /\ MainFrame

NextMain == MainArgc \/ MainScan \/ MainPort \/ MainListen \/ MainHup

SpecMain == InitMain /\ [][NextMain]_vars

\* --------------------- two requests on one invitation, step by step, SpecRace

Opponent(c, i) == IF c = inv[i].source THEN inv[i].target ELSE inv[i].source
RoleIn(c, i) == IF c = inv[i].source THEN inv[i].source_role ELSE inv[i].target_role

\* the service threads of the two sessions logged in, each named by its session
RaceThreads == {c \in Sessions : c <= Len(PlayNames)}

\* the request a thread serves: one on slot 0 of its session's list
RaceRequests ==
    {r \in PlayRequests : r.type # "INVITE" /\ r.id = 0
                          /\ (r.type = "MOVE" => r.arg = <<"1">>)}

\* The calls of a handler in the order of its code, each a step of its thread.
\* A call that takes a lock of its own and gives it back before it returns
\* (inv_ref, inv_accept, inv_close, the game's functions, client_send_packet)
\* is one step; client_accept_invitation's loop over the source's list is
\* part of its checks.
RaceProg(type) ==
    IF type \in {"REVOKE", "DECLINE"}
    THEN <<"lock", "check", "ref", "rmSelf", "rmPeer", "notify", "unref", "unlock">>
    ELSE IF type = "ACCEPT"
    THEN <<"lock", "check", "ref", "act", "notify", "unref", "unlock">>
    ELSE <<"lock", "check", "ref", "find", "act", "notify", "over", "endSelf",
           "endPeer", "rmSelf", "rmPeer", "post", "unref", "unlock">>

\* what is left of a handler that gives up holding a reference it took
Bail == <<"unref", "unlock">>

\* Sessions 1 and 2 are logged in; session 1 has invited session 2, and the
\* invitation is in slot 0 of both lists, OPEN or ACCEPTED with a new game.
\* Each of the two threads has read a request and is about to call its handler;
\* th.was keeps the state the invitation started in.
InitRace ==
    /\ conn = [c \in Conns |-> IF c \in Sessions THEN "open" ELSE "none"]
    /\ pc = [c \in Conns |-> IF c \in Sessions THEN "loop" ELSE "idle"]
    /\ login = [c \in Conns |-> c \in RaceThreads]
    /\ client = [c \in Conns |->
                   IF c \in RaceThreads
                   THEN [player |-> PlayNames[c], invlist |-> [Block EXCEPT ![1] = 1]]
                   ELSE NewClient]
    /\ crBuf = [k \in 1..MAX_CLIENTS |-> IF k \in Sessions THEN k ELSE NoClient]
    /\ crCount = Cardinality(Sessions)
    /\ crEmpty = 0
    /\ \E st \in {"OPEN", "ACCEPTED"}, r \in {FIRST_PLAYER_ROLE, SECOND_PLAYER_ROLE} :
         inv = [i \in InvIds |->
                  IF i = 1
                  THEN [inv_create(1, 2, r, 3 - r) EXCEPT
                          !.refcnt = 2, !.state = st,
                          !.game = IF st = "ACCEPTED" THEN game_create ELSE NoGame]
                  ELSE NoInv]
    /\ pregNames = {PlayNames[c] : c \in RaceThreads}
    /\ rating = [n \in Names |-> PLAYER_INITIAL_RATING]
    /\ posts = 0
    /\ pcMain = "accept"
    /\ steps = 0
    /\ \E rq \in [RaceThreads -> RaceRequests] :
         th = [was |-> inv[1].state,
               req |-> rq,
               todo |-> [t \in RaceThreads |-> RaceProg(rq[t].type)],
               i |-> [t \in RaceThreads |-> NoInvId],
               oppid |-> [t \in RaceThreads |-> 0],
               ret |-> [t \in RaceThreads |-> 0],
               ans |-> [t \in RaceThreads |-> ""],
               asleep |-> [t \in RaceThreads |-> FALSE]]
    /\ sem = [cm |-> [c \in RaceThreads |-> 1], im |-> 1]
    /\ wire = <<>>

RaceFrame == UNCHANGED <<conn, pc, login, crBuf, crCount, crEmpty, pregNames, pcMain, steps>>

\* thread t is about to take the step `label`
At(t, label) == th.todo[t] # <<>> /\ Head(th.todo[t]) = label

\* t goes on with the calls `todo`, its handler's return value being `ret`
Goes(t, todo, ret) == [th EXCEPT !.todo[t] = todo, !.ret[t] = ret]

\* P(&client->mutex) at the head of every handler
RaceLock(t) ==
    /\ At(t, "lock")
    /\ sem.cm[t] > 0
    /\ sem' = [sem EXCEPT !.cm[t] = @ - 1]
    /\ th' = Goes(t, Tail(th.todo[t]), 0)
    /\ UNCHANGED <<client, inv, rating, posts, wire>>
    /\ RaceFrame

\* the handler's checks of id, of the slot, of the caller's side and of the game
RaceCheck(t) ==
    /\ At(t, "check")
    /\ LET req == th.req[t]
           l == client[t].invlist
           i == l[req.id + 1]
           side == IF req.type = "REVOKE" THEN t = inv[i].source
                   ELSE IF req.type \in {"DECLINE", "ACCEPT"} THEN t = inv[i].target
                   ELSE TRUE
           game == IF req.type \in {"REVOKE", "DECLINE", "ACCEPT"}
                   THEN inv[i].game = NoGame ELSE inv[i].game # NoGame
           index == FirstSlot(client[inv[i].source].invlist, i)
           ok == /\ req.id < Len(l)
                 /\ l[req.id + 1] # NoInvId
                 /\ side
                 /\ game
                 /\ req.type = "ACCEPT" => index # -1
       IN  th' = IF ok
                 THEN [Goes(t, Tail(th.todo[t]), 0) EXCEPT
                         !.i[t] = i,
                         !.oppid[t] = IF req.type = "ACCEPT" THEN index ELSE 0]
                 ELSE Goes(t, <<"unlock">>, -1)
    /\ UNCHANGED <<client, inv, rating, posts, sem, wire>>
    /\ RaceFrame

\* inv_ref while another thread holds inv->mutex: t goes to sleep in P, and
\* only a V of that semaphore wakes it
RaceRefWait(t) ==
    /\ At(t, "ref")
    /\ inv[th.i[t]] # NoInv
    /\ sem.im = 0
    /\ ~th.asleep[t]
    /\ th' = [th EXCEPT !.asleep[t] = TRUE]
    /\ UNCHANGED <<client, inv, rating, posts, sem, wire>>
    /\ RaceFrame

\* inv_ref: P(&inv->mutex), refcnt++, V
RaceRef(t) ==
    /\ At(t, "ref")
    /\ inv[th.i[t]] # NoInv
    /\ sem.im > 0
    /\ inv' = inv_ref(World, th.i[t]).inv
    /\ th' = Goes(t, Tail(th.todo[t]), 0)
    /\ UNCHANGED <<client, rating, posts, sem, wire>>
    /\ RaceFrame

\* inv_ref called on an invitation that was freed after t read the pointer
\* from its list: the semaphore is in freed memory. Either t stays in P (the
\* value was left at 0), or the memory has been used again and the thread faults.
RaceFault(t) ==
    /\ At(t, "ref")
    /\ inv[th.i[t]] = NoInv
    /\ ~th.asleep[t]
    /\ th' = [Goes(t, <<>>, -1) EXCEPT !.ans[t] = "fault"]
    /\ UNCHANGED <<client, inv, rating, posts, sem, wire>>
    /\ RaceFrame

\* the loop of client_resign_game and client_make_move over the opponent's list
RaceFind(t) ==
    /\ At(t, "find")
    /\ LET i == th.i[t]
           found == FirstSlot(client[Opponent(t, i)].invlist, i)
           oppid == IF th.req[t].type = "MOVE"
                    THEN MovedId(t = inv[i].source, found) ELSE found
       IN  th' = IF found = -1 THEN Goes(t, Bail, -1)
                 ELSE [Goes(t, Tail(th.todo[t]), 0) EXCEPT !.oppid[t] = oppid]
    /\ UNCHANGED <<client, inv, rating, posts, sem, wire>>
    /\ RaceFrame

\* inv_accept, inv_close, or game_parse_move and game_apply_move
RaceAct(t) ==
    /\ At(t, "act")
    /\ LET i == th.i[t]
           type == th.req[t].type
           game == inv[i].game
           pmove == game_parse_move(game, RoleIn(t, i), th.req[t].arg)
           ap == game_apply_move(game, pmove)
           r == IF type = "ACCEPT" THEN inv_accept(World, i)
                ELSE IF type = "RESIGN" THEN inv_close(World, i, RoleIn(t, i))
                ELSE IF pmove = NoMove THEN Res(World, -1)
                ELSE Res([World EXCEPT !.inv[i].game = ap.game], ap.ret)
       IN  /\ inv' = r.w.inv
           /\ th' = IF r.ret = -1 THEN Goes(t, Bail, -1) ELSE Goes(t, Tail(th.todo[t]), 0)
    /\ UNCHANGED <<client, rating, posts, sem, wire>>
    /\ RaceFrame

\* the packet that tells the other side: REVOKED, DECLINED, ACCEPTED, RESIGNED, MOVED
RaceNotify(t) ==
    /\ At(t, "notify")
    /\ LET i == th.i[t]
           type == th.req[t].type
           state == game_unparse_state(inv[i].game)
           s == CASE type = "REVOKE" ->
                       client_send_packet(World, inv[i].target, "REVOKED", th.oppid[t], 0, NoPayload)
                  [] type = "DECLINE" ->
                       client_send_packet(World, inv[i].source, "DECLINED", th.oppid[t], 0, NoPayload)
                  [] type = "ACCEPT" ->
                       client_send_packet(World, inv[i].source, "ACCEPTED", th.oppid[t], 0,
                                          IF inv[i].source_role = 1 THEN state ELSE NoPayload)
                  [] type = "RESIGN" ->
                       client_send_packet(World, Opponent(t, i), "RESIGNED", th.oppid[t], 0, NoPayload)
                  [] OTHER ->
                       client_send_packet(World, Opponent(t, i), "MOVED", th.oppid[t], 0, state)
       IN  /\ wire' = wire \o s.w.out
           /\ th' = IF s.ret = -1 THEN Goes(t, Bail, -1) ELSE Goes(t, Tail(th.todo[t]), 0)
    /\ UNCHANGED <<client, inv, rating, posts, sem>>
    /\ RaceFrame

\* if(game_is_over(...)) after the packet has been sent
RaceOver(t) ==
    /\ At(t, "over")
    /\ th' = IF game_is_over(inv[th.i[t]].game) THEN Goes(t, Tail(th.todo[t]), 0)
             ELSE Goes(t, Bail, 0)
    /\ UNCHANGED <<client, inv, rating, posts, sem, wire>>
    /\ RaceFrame

\* ENDED to the caller with its own id, then to the opponent
RaceEnded(t) ==
    /\ At(t, "endSelf") \/ At(t, "endPeer")
    /\ LET i == th.i[t]
           role == IF th.req[t].type = "RESIGN" THEN RoleIn(Opponent(t, i), i)
                   ELSE game_get_winner(inv[i].game)
           s == IF At(t, "endSelf")
                THEN client_send_packet(World, t, "ENDED", th.req[t].id, role, NoPayload)
                ELSE client_send_packet(World, Opponent(t, i), "ENDED", th.oppid[t], role, NoPayload)
       IN  /\ wire' = wire \o s.w.out
           /\ th' = IF s.ret = -1 THEN Goes(t, Bail, -1) ELSE Goes(t, Tail(th.todo[t]), 0)
    /\ UNCHANGED <<client, inv, rating, posts, sem>>
    /\ RaceFrame

\* client_remove_invitation on the caller's list, then on the other side's:
\* it takes no lock, and where it succeeds it ends with V(&client->mutex)
RaceRemove(t) ==
    /\ At(t, "rmSelf") \/ At(t, "rmPeer")
    /\ LET i == th.i[t]
           x == IF At(t, "rmSelf") THEN t ELSE Opponent(t, i)
           r == client_remove_invitation(World, x, i)
       IN  /\ client' = r.w.client
           /\ inv' = r.w.inv
           /\ sem' = IF r.ret = -1 THEN sem ELSE [sem EXCEPT !.cm[x] = @ + 1]
           /\ th' = IF r.ret = -1 THEN Goes(t, Bail, -1)
                    ELSE IF At(t, "rmPeer") /\ th.req[t].type \in {"REVOKE", "DECLINE"}
                    THEN [Goes(t, Tail(th.todo[t]), 0) EXCEPT !.oppid[t] = r.ret]
                    ELSE Goes(t, Tail(th.todo[t]), 0)
    /\ UNCHANGED <<rating, posts, wire>>
    /\ RaceFrame

\* player_post_result with the target as player1
RacePost(t) ==
    /\ At(t, "post")
    /\ LET i == th.i[t]
           w == player_post_result(World, client[inv[i].target].player,
                                   client[inv[i].source].player,
                                   game_get_winner(inv[i].game))
       IN  /\ rating' = w.rating
           /\ posts' = w.posts
    /\ th' = Goes(t, Tail(th.todo[t]), th.ret[t])
    /\ UNCHANGED <<client, inv, sem, wire>>
    /\ RaceFrame

\* inv_unref: P(&inv->mutex), refcnt--; V if references remain, and if none
\* do the thread goes on to free the invitation with the mutex held
RaceUnref(t) ==
    /\ At(t, "unref")
    /\ sem.im > 0
    /\ LET i == th.i[t]
       IN  IF inv[i].refcnt = 1
           THEN /\ inv' = [inv EXCEPT ![i].refcnt = 0]
                /\ sem' = [sem EXCEPT !.im = @ - 1]
                /\ th' = Goes(t, <<"freeSource", "freeTarget", "free">> \o Tail(th.todo[t]),
                              th.ret[t])
           ELSE /\ inv' = inv_unref(World, i).inv
                /\ sem' = sem
                /\ th' = Goes(t, Tail(th.todo[t]), th.ret[t])
    /\ UNCHANGED <<client, rating, posts, wire>>
    /\ RaceFrame

\* client_unref of the source, then of the target, inside inv_unref: P and V
\* of that CLIENT's mutex; the registry's reference keeps the CLIENT
RaceUnrefClient(t) ==
    /\ At(t, "freeSource") \/ At(t, "freeTarget")
    /\ LET x == IF At(t, "freeSource") THEN inv[th.i[t]].source ELSE inv[th.i[t]].target
       IN  sem.cm[x] > 0
    /\ th' = Goes(t, Tail(th.todo[t]), th.ret[t])
    /\ UNCHANGED <<client, inv, rating, posts, sem, wire>>
    /\ RaceFrame

\* the end of inv_unref at zero: game_unref, Free(inv), return; no V
RaceFree(t) ==
    /\ At(t, "free")
    /\ inv' = [inv EXCEPT ![th.i[t]] = NoInv]
    /\ th' = Goes(t, Tail(th.todo[t]), th.ret[t])
    /\ UNCHANGED <<client, rating, posts, sem, wire>>
    /\ RaceFrame

\* V(&client->mutex), return, and the service loop's ACK or NACK
RaceUnlock(t) ==
    /\ At(t, "unlock")
    /\ sem' = [sem EXCEPT !.cm[t] = @ + 1]
    /\ LET ans == IF th.ret[t] = -1 THEN "NACK" ELSE "ACK"
       IN  /\ th' = [Goes(t, <<>>, th.ret[t]) EXCEPT !.ans[t] = ans]
           /\ wire' = Append(wire, Pkt(t, ans, 0, 0, NoPayload))
    /\ UNCHANGED <<client, inv, rating, posts>>
    /\ RaceFrame

NextRace ==
    \E t \in RaceThreads :
        \/ RaceLock(t)
        \/ RaceCheck(t)
        \/ RaceRefWait(t)
        \/ RaceRef(t)
        \/ RaceFault(t)
        \/ RaceFind(t)
        \/ RaceAct(t)
        \/ RaceNotify(t)
        \/ RaceOver(t)
        \/ RaceEnded(t)
        \/ RaceRemove(t)
        \/ RacePost(t)
        \/ RaceUnref(t)
        \/ RaceUnrefClient(t)
        \/ RaceFree(t)
        \/ RaceUnlock(t)

SpecRace == InitRace /\ [][NextRace]_vars

\* -------------------- the static packet headers, store by store, SpecHdr

\* The calls two service threads make at the same time: client_send_ack with
\* or without a payload, or the REVOKED packet of client_revoke_invitation
\* with the target's index. Each function composes its packet in a header
\* declared static, which all threads running the function share.
HdrCalls ==
    {[fn |-> "ack", id |-> 0, data |-> d] : d \in {<<>>, <<"a", "b">>}}
    \cup {[fn |-> "revoked", id |-> k, data |-> <<>>] : k \in {0, 1}}

\* the header fields the call computes
Computed(call) ==
    [type |-> IF call.fn = "ack" THEN "ACK" ELSE "REVOKED",
     id |-> call.id, role |-> 0, size |-> Len(call.data)]

\* a static header before any call has stored into it
ZeroHeader == [type |-> "NONE", id |-> 0, role |-> 0, size |-> 0]

InitHdr ==
    /\ InitRegistered
    /\ \E cl \in [RaceThreads -> HdrCalls] :
         th = [call |-> cl,
               at |-> [t \in RaceThreads |-> "type"],
               header |-> [fn \in {"ack", "revoked"} |-> ZeroHeader]]
    /\ sem = [crMutex |-> 1, network |-> 1]
    /\ wire = <<>>

\* one assignment to a field of the function's static header
HdrStore(t) ==
    /\ th.at[t] \in {"type", "id", "role", "size"}
    /\ LET fn == th.call[t].fn
           c == Computed(th.call[t])
       IN  th' = CASE th.at[t] = "type" ->
                        [th EXCEPT !.header[fn].type = c.type, !.at[t] = "id"]
                   [] th.at[t] = "id" ->
                        [th EXCEPT !.header[fn].id = c.id, !.at[t] = "role"]
                   [] th.at[t] = "role" ->
                        [th EXCEPT !.header[fn].role = c.role, !.at[t] = "size"]
                   [] OTHER ->
                        [th EXCEPT !.header[fn].size = c.size, !.at[t] = "lock"]
    /\ UNCHANGED <<sem, wire>>
    /\ NetFrame

\* client_send_packet: P(&network)
HdrLock(t) ==
    /\ th.at[t] = "lock"
    /\ sem.network > 0
    /\ sem' = [sem EXCEPT !.network = @ - 1]
    /\ th' = [th EXCEPT !.at[t] = "write"]
    /\ UNCHANGED wire
    /\ NetFrame

\* proto_send_packet: the header as it stands now, then hdr->size bytes of
\* the payload if that size is above 0 and data is not NULL
HdrWrite(t) ==
    /\ th.at[t] = "write"
    /\ LET hdr == th.header[th.call[t].fn]
           data == th.call[t].data
       IN  wire' = Append(wire, [by |-> t, hdr |-> hdr,
                                 payload |-> IF hdr.size > 0 /\ data # <<>>
                                             THEN SubSeq(data, 1, hdr.size) ELSE <<>>])
    /\ th' = [th EXCEPT !.at[t] = "unlock"]
    /\ UNCHANGED sem
    /\ NetFrame

\* client_send_packet: V(&network)
HdrUnlock(t) ==
    /\ th.at[t] = "unlock"
    /\ sem' = [sem EXCEPT !.network = @ + 1]
    /\ th' = [th EXCEPT !.at[t] = "done"]
    /\ UNCHANGED wire
    /\ NetFrame

NextHdr ==
    \E t \in RaceThreads : HdrStore(t) \/ HdrLock(t) \/ HdrWrite(t) \/ HdrUnlock(t)

SpecHdr == InitHdr /\ [][NextHdr]_vars

\* ------------------------------------------- one game, move by move, SpecGame

\* the move strings tried on the game: each cell, and strings naming no cell
GameMoves == {<<"1">>, <<"2">>, <<"3">>, <<"4">>, <<"5">>, <<"6">>, <<"7">>, <<"8">>,
              <<"9">>, <<"0">>, <<"1", "0">>, <<"x">>}

\* th.game is the GAME after game_create; th.ret the value game_apply_move
\* returned last
InitGame ==
    /\ InitRegistered
    /\ th = [game |-> game_create, ret |-> 0]
    /\ sem = [crMutex |-> 1, network |-> 1]
    /\ wire = <<>>

\* game_parse_move for a participant's role, then game_apply_move
GameMove(role, str) ==
    /\ LET pmove == game_parse_move(th.game, role, str)
           ap == game_apply_move(th.game, pmove)
       IN  /\ pmove # NoMove
           /\ th' = [game |-> ap.game, ret |-> ap.ret]
    /\ UNCHANGED <<sem, wire>>
    /\ NetFrame

NextGame ==
    \E role \in {FIRST_PLAYER_ROLE, SECOND_PLAYER_ROLE}, str \in GameMoves : GameMove(role, str)

SpecGame == InitGame /\ [][NextGame]_vars

\* ----------------------------- one invitation list, call by call, SpecList

\* the invitations added to and removed from the list of session 1
ListInvs == {i \in InvIds : i <= 2}

\* the server after the Sessions have registered and session 1 has created
\* the invitations of ListInvs for session 2; its list has not been allocated
InitList ==
    /\ conn = [c \in Conns |-> IF c \in Sessions THEN "open" ELSE "none"]
    /\ pc = [c \in Conns |-> IF c \in Sessions THEN "loop" ELSE "idle"]
    /\ login = [c \in Conns |-> FALSE]
    /\ client = [c \in Conns |-> NewClient]
    /\ crBuf = [k \in 1..MAX_CLIENTS |-> IF k \in Sessions THEN k ELSE NoClient]
    /\ crCount = Cardinality(Sessions)
    /\ crEmpty = 0
    /\ inv = [i \in InvIds |->
                IF i \in ListInvs
                THEN inv_create(1, 2, FIRST_PLAYER_ROLE, SECOND_PLAYER_ROLE) ELSE NoInv]
    /\ pregNames = {}
    /\ rating = [n \in Names |-> PLAYER_INITIAL_RATING]
    /\ posts = 0
    /\ pcMain = "accept"
    /\ steps = 0
    /\ InitAux

\* client_add_invitation(client, inv), until the list has grown a second block
ListAdd(c, i) ==
    /\ Len(client[c].invlist) <= ListBlock
    /\ LET r == client_add_invitation(World, c, i)
       IN  /\ client' = r.w.client
           /\ inv' = r.w.inv
    /\ UNCHANGED <<conn, pc, login, crBuf, crCount, crEmpty, pregNames, rating, posts,
                   pcMain, steps, auxVars>>

\* client_remove_invitation(client, inv) of an invitation the list holds
ListRemove(c, i) ==
    /\ Len(client[c].invlist) <= ListBlock
    /\ LET r == client_remove_invitation(World, c, i)
       IN  /\ r.ret # -1
           /\ client' = r.w.client
           /\ inv' = r.w.inv
    /\ UNCHANGED <<conn, pc, login, crBuf, crCount, crEmpty, pregNames, rating, posts,
                   pcMain, steps, auxVars>>

NextList ==
    \/ \E i \in ListInvs : ListAdd(1, i)
    \/ \E i \in ListInvs : ListRemove(1, i)

SpecList == InitList /\ [][NextList]_vars

\* ------------------------------------------------- properties of the server

\* the thread of c is in its service loop, logged in, and reads a packet
RecvReady(c) == pc[c] = "loop" /\ conn[c] = "open" /\ login[c]

\* the thread of c is in its service loop, logged in, and its read fails
ExitReady(c) == pc[c] = "loop" /\ proto_recv_packet(c) = -1 /\ login[c]

\* packets can be written to d
PeerUp(d) == d # NoClient /\ pc[d] = "loop" /\ ~WriteFails(d)

\* slot id of c's list holds an invitation
HasInv(c, id) == id < Len(client[c].invlist) /\ client[c].invlist[id + 1] # NoInvId

\* invitation i is a game in progress between two sessions logged in as
\* different players, one with each role
ProperGame(i) ==
    /\ inv[i].state = "ACCEPTED"
    /\ inv[i].game # NoGame
    /\ ~game_is_over(inv[i].game)
    /\ inv[i].source # inv[i].target
    /\ {inv[i].source_role, inv[i].target_role} = {FIRST_PLAYER_ROLE, SECOND_PLAYER_ROLE}
    /\ client[inv[i].source].player # NoPlayer
    /\ client[inv[i].target].player # NoPlayer
    /\ client[inv[i].source].player # client[inv[i].target].player

\* the game of invitation i after c's request: a MOVE applied, or c's resignation
GameAfter(c, req, i) ==
    IF req.type = "RESIGN" THEN game_resign(inv[i].game, RoleIn(c, i)).game
    ELSE game_apply_move(inv[i].game, game_parse_move(inv[i].game, RoleIn(c, i), req.arg)).game

\* the player who has role r in invitation i
PlayerOfRole(i, r) ==
    IF inv[i].source_role = r THEN client[inv[i].source].player
    ELSE client[inv[i].target].player

\* C3: when a game ends decisively, the player who played the winning role
\* gains rating and the player who played the losing role loses the same
\* amount, whichever of them was the invitation's source or target; with both
\* at 1500 the winner becomes 1516 and the loser 1484; a draw leaves both
\* ratings unchanged.
C3_WinnerGains ==
    \A c \in Conns, req \in Requests :
        (/\ RecvReady(c)
         /\ req.type \in {"MOVE", "RESIGN"}
         /\ HasInv(c, req.id)
         /\ ProperGame(client[c].invlist[req.id + 1])
         /\ PeerUp(Opponent(c, client[c].invlist[req.id + 1])))
        => LET i == client[c].invlist[req.id + 1]
               d == Dispatch(World, c, req)
               w == game_get_winner(GameAfter(c, req, i))
               win == PlayerOfRole(i, w)
               lose == PlayerOfRole(i, 3 - w)
               delta == d.w.rating[win] - rating[win]
           IN  /\ (d.ret = 0 /\ w \in {1, 2})
                    => /\ delta > 0
                       /\ d.w.rating[lose] = rating[lose] - delta
                       /\ (rating[win] = 1500 /\ rating[lose] = 1500) => delta = 16
               /\ (d.ret = 0 /\ w = 0) => d.w.rating = rating

\* C4: when a connection reaches end-of-stream, its service loop processes no
\* further request (and goes on to log out, unregister and close).
C4_NoRequestAfterEof ==
    [][\A c \in Conns : conn[c] = "eof" => ~(\E req \in Requests : RecvEof(c, req))]_vars

\* C5: after SIGHUP with clients connected the read half of every registered
\* connection is shut down and every service thread eventually unregisters, so
\* that terminate's wait returns and the process exits. A service thread
\* unregisters only after its read returned -1: once terminate has shut the
\* connections down, the read of every registered thread ends its loop.
C5_ShutdownEndsThreads ==
    pcMain = "wait"
        => \A c \in Conns : (Registered(c) /\ pc[c] = "loop") => proto_recv_packet(c) = -1

\* packet k of out is the given one, without payload
IsPkt(out, k, to, type, id, role) == out[k] = Pkt(to, type, id, role, NoPayload)

\* C8: when a logged-in session disconnects, for every invitation in its list:
\* if it is the source of an OPEN invitation the target receives REVOKED; if it
\* is the target of an OPEN invitation the source receives DECLINED; if a game
\* is in progress the opponent receives RESIGNED followed by ENDED naming the
\* opponent as winner.
C8_LogoutNotifies ==
    \A c \in Conns :
        ExitReady(c)
        => LET out == client_logout(World, c).w.out
           IN  \A k \in 0..(Len(client[c].invlist) - 1) :
                 (/\ HasInv(c, k)
                  /\ ~Stale(c, k)
                  /\ Opponent(c, client[c].invlist[k + 1]) # c
                  /\ PeerUp(Opponent(c, client[c].invlist[k + 1])))
                 => LET i == client[c].invlist[k + 1]
                        opp == Opponent(c, i)
                        oppid == FirstSlot(client[opp].invlist, i)
                    IN  IF inv[i].state = "OPEN" /\ inv[i].game = NoGame
                        THEN \E n \in 1..Len(out) :
                               IsPkt(out, n, opp, IF c = inv[i].source THEN "REVOKED"
                                                  ELSE "DECLINED", oppid, 0)
                        ELSE ProperGame(i)
                             => \E n, m \in 1..Len(out) :
                                  /\ n < m
                                  /\ IsPkt(out, n, opp, "RESIGNED", oppid, 0)
                                  /\ IsPkt(out, m, opp, "ENDED", oppid, RoleIn(opp, i))

\* C9: when a logged-in session with a game in progress disconnects, the
\* resulting resignation is posted as a game result: the opponent's rating
\* increases and the disconnected player's rating decreases.
C9_DisconnectPosted ==
    \A c \in Conns :
        ExitReady(c)
        => LET r == client_logout(World, c).w.rating
           IN  \A k \in 0..(Len(client[c].invlist) - 1) :
                 (/\ HasInv(c, k)
                  /\ ~Stale(c, k)
                  /\ ProperGame(client[c].invlist[k + 1])
                  /\ PeerUp(Opponent(c, client[c].invlist[k + 1])))
                 => LET opp == Opponent(c, client[c].invlist[k + 1])
                    IN  /\ r[client[opp].player] > rating[client[opp].player]
                        /\ r[client[c].player] < rating[client[c].player]

\* C10: every successful MOVE, made by the invitation's source or by its
\* target, sends the opponent exactly one MOVED packet whose id is the
\* opponent's own local index for that invitation and whose payload is the
\* game state rendered after the move.
C10_MovedToOpponent ==
    \A c \in Conns, req \in Requests :
        (/\ RecvReady(c)
         /\ req.type = "MOVE"
         /\ HasInv(c, req.id)
         /\ ~Stale(c, req.id)
         /\ Opponent(c, client[c].invlist[req.id + 1]) # c)
        => LET i == client[c].invlist[req.id + 1]
               opp == Opponent(c, i)
               out == Dispatch(World, c, req).w.out
               moved == {n \in 1..Len(out) : out[n].type = "MOVED"}
           IN  Dispatch(World, c, req).ret = 0
               => /\ Cardinality(moved) = 1
                  /\ \A n \in moved :
                       /\ out[n].to = opp
                       /\ out[n].id = FirstSlot(client[opp].invlist, i)
                       /\ out[n].payload = game_unparse_state(GameAfter(c, req, i))

\* the ENDED packets of out written to x
EndedTo(out, x) == {n \in 1..Len(out) : out[n].type = "ENDED" /\ out[n].to = x}

\* C11: when a MOVE ends the game (win or draw), each of the two participants
\* is sent exactly one ENDED packet whose id is that participant's own local
\* index and whose role is the game's winner role (0 for a draw), the
\* invitation is removed from both participants' lists, and the result is
\* posted to the ratings.
C11_MoveEndsGame ==
    \A c \in Conns, req \in Requests :
        (/\ RecvReady(c)
         /\ req.type = "MOVE"
         /\ HasInv(c, req.id)
         /\ ProperGame(client[c].invlist[req.id + 1])
         /\ PeerUp(Opponent(c, client[c].invlist[req.id + 1])))
        => LET i == client[c].invlist[req.id + 1]
               opp == Opponent(c, i)
               d == Dispatch(World, c, req)
               g == GameAfter(c, req, i)
           IN  (d.ret = 0 /\ game_is_over(g))
               => /\ \A x \in {c, opp} :
                       /\ Cardinality(EndedTo(d.w.out, x)) = 1
                       /\ \A n \in EndedTo(d.w.out, x) :
                            /\ d.w.out[n].id = FirstSlot(client[x].invlist, i)
                            /\ d.w.out[n].role = game_get_winner(g)
                  /\ FirstSlot(d.w.client[c].invlist, i) = -1
                  /\ FirstSlot(d.w.client[opp].invlist, i) = -1
                  /\ d.w.posts = posts + 1

\* invitation i is between two different sessions, both logged in
TwoSessions(i) ==
    /\ inv[i].source # inv[i].target
    /\ client[inv[i].source].player # NoPlayer
    /\ client[inv[i].target].player # NoPlayer

\* C12: RESIGN id on an ACCEPTED invitation by either participant terminates
\* the game with the opponent as winner, sends the opponent RESIGNED with the
\* opponent's local index, then sends ENDED to both participants with role
\* equal to the opponent's role, which equals the winner recorded by the game
\* (a value in {1,2}), and removes the invitation from both lists; RESIGN on an
\* invitation that is not ACCEPTED is answered with NACK.
C12_ResignEndsGame ==
    \A c \in Conns, req \in Requests :
        (/\ RecvReady(c)
         /\ req.type = "RESIGN"
         /\ HasInv(c, req.id)
         /\ TwoSessions(client[c].invlist[req.id + 1])
         /\ PeerUp(Opponent(c, client[c].invlist[req.id + 1])))
        => LET i == client[c].invlist[req.id + 1]
               opp == Opponent(c, i)
               oppid == FirstSlot(client[opp].invlist, i)
               d == Dispatch(World, c, req)
               out == d.w.out
               w == game_get_winner(GameAfter(c, req, i))
           IN  IF inv[i].state = "ACCEPTED"
               THEN /\ d.ret = 0
                    /\ w = RoleIn(opp, i)
                    /\ w \in {FIRST_PLAYER_ROLE, SECOND_PLAYER_ROLE}
                    /\ \E n \in 1..Len(out) :
                         /\ IsPkt(out, n, opp, "RESIGNED", oppid, 0)
                         /\ \A m \in EndedTo(out, c) \cup EndedTo(out, opp) : n < m
                    /\ Cardinality(EndedTo(out, c)) = 1
                    /\ Cardinality(EndedTo(out, opp)) = 1
                    /\ \A m \in EndedTo(out, c) : IsPkt(out, m, c, "ENDED", req.id, w)
                    /\ \A m \in EndedTo(out, opp) : IsPkt(out, m, opp, "ENDED", oppid, w)
                    /\ FirstSlot(d.w.client[c].invlist, i) = -1
                    /\ FirstSlot(d.w.client[opp].invlist, i) = -1
               ELSE out = <<Pkt(c, "NACK", 0, 0, NoPayload)>>

\* the rendered state of a game that has just been created
InitialState == game_unparse_state(game_create)

\* C13: ACCEPT id by session T succeeds only if slot id of T's list holds an
\* OPEN invitation whose target is T; on success the invitation becomes
\* ACCEPTED with a fresh game, the source receives ACCEPTED carrying the
\* source's local index, and the rendered initial game state is delivered to
\* exactly one party: in the ACCEPTED payload iff the source's role is FIRST,
\* in T's ACK payload iff T's role is FIRST.
C13_AcceptStartsGame ==
    \A c \in Conns, req \in Requests :
        (RecvReady(c) /\ req.type = "ACCEPT")
        => LET d == Dispatch(World, c, req)
               out == d.w.out
           IN  d.ret = 0
               => /\ HasInv(c, req.id)
                  /\ LET i == client[c].invlist[req.id + 1]
                         src == inv[i].source
                     IN  /\ inv[i].state = "OPEN"
                         /\ inv[i].target = c
                         /\ d.w.inv[i].state = "ACCEPTED"
                         /\ d.w.inv[i].game = game_create
                         /\ Len(out) = 2
                         /\ out[1].to = src
                         /\ out[1].type = "ACCEPTED"
                         /\ out[1].id = FirstSlot(client[src].invlist, i)
                         /\ out[2].to = c
                         /\ out[2].type = "ACK"
                         /\ out[1].payload \in {InitialState, NoPayload}
                         /\ out[2].payload \in {InitialState, NoPayload}
                         /\ (out[1].payload = InitialState) # (out[2].payload = InitialState)
                         /\ out[1].payload = InitialState
                              <=> inv[i].source_role = FIRST_PLAYER_ROLE
                         /\ out[2].payload = InitialState
                              <=> inv[i].target_role = FIRST_PLAYER_ROLE

\* an ACCEPT is about to succeed on an invitation whose target moves first,
\* and another on one whose source moves first
C13_Witness ==
    \E c \in Conns, req \in Requests :
        /\ RecvReady(c)
        /\ req.type = "ACCEPT"
        /\ Dispatch(World, c, req).ret = 0
        /\ inv[client[c].invlist[req.id + 1]].target_role = FIRST_PLAYER_ROLE
        /\ \E i \in InvIds : inv[i] # NoInv /\ inv[i].state = "ACCEPTED"
                             /\ inv[i].source_role = FIRST_PLAYER_ROLE

\* slot k of list l is free, or beyond its end
SlotFree(l, k) == k >= Len(l) \/ l[k + 1] = NoInvId

\* list l1 is list l0 with invitation i put into the free slots ks and nothing
\* else changed (l0 may have been grown by a block of empty slots)
Stored(l0, l1, i, ks) ==
    /\ Len(l1) >= Len(l0)
    /\ \A k \in ks : k < Len(l1) /\ SlotFree(l0, k)
    /\ \A k \in 0..(Len(l1) - 1) :
         l1[k + 1] = IF k \in ks THEN i
                     ELSE IF k < Len(l0) THEN l0[k + 1] ELSE NoInvId

\* C14: a successful INVITE from logged-in session S naming logged-in session T
\* with role field r creates one OPEN invitation with target_role = r, stores
\* it in both S's and T's lists, sends T exactly one INVITED packet whose id is
\* T's local index, whose role is r and whose payload is S's username, and
\* answers S with an ACK whose id field is S's local index.
C14_InviteCreates ==
    \A c \in Conns, req \in Requests :
        (RecvReady(c) /\ req.type = "INVITE" /\ FreeInv # {})
        => LET d == Dispatch(World, c, req)
               out == d.w.out
               t == creg_lookup(client, req.arg[1])
               i == CHOOSE j \in FreeInv : \A k \in FreeInv : j <= k
           IN  d.ret # -1
               => /\ t # NoClient
                  /\ login[t]
                  /\ d.w.inv[i].state = "OPEN"
                  /\ d.w.inv[i].source = c
                  /\ d.w.inv[i].target = t
                  /\ d.w.inv[i].target_role = req.role
                  /\ d.w.inv[i].game = NoGame
                  /\ \A j \in InvIds \ {i} : d.w.inv[j] = inv[j]
                  /\ Len(out) = 2
                  /\ out[1] = Pkt(t, "INVITED", out[1].id, req.role, client[c].player)
                  /\ out[2] = Pkt(c, "ACK", out[2].id, 0, NoPayload)
                  /\ IF t = c
                     THEN /\ out[1].id # out[2].id
                          /\ Stored(client[c].invlist, d.w.client[c].invlist, i,
                                    {out[1].id, out[2].id})
                     ELSE /\ Stored(client[t].invlist, d.w.client[t].invlist, i, {out[1].id})
                          /\ Stored(client[c].invlist, d.w.client[c].invlist, i, {out[2].id})
                  /\ \A x \in Conns \ {c, t} : d.w.client[x] = client[x]

\* an INVITE naming another session is about to succeed while both lists
\* already hold an invitation
C14_Witness ==
    \E c \in Conns, req \in Requests :
        /\ RecvReady(c)
        /\ req.type = "INVITE"
        /\ FreeInv # {}
        /\ Dispatch(World, c, req).ret # -1
        /\ creg_lookup(client, req.arg[1]) \notin {c, NoClient}
        /\ \E k \in 0..(Len(client[c].invlist) - 1) : ~SlotFree(client[c].invlist, k)

\* the indices of list l that hold x
SlotsOf(l, x) == {k \in 0..(Len(l) - 1) : l[k + 1] = x}

\* list l with every slot that holds invitation i emptied
Without(l, i) == [k \in 1..Len(l) |-> IF l[k] = i THEN NoInvId ELSE l[k]]

\* C15: REVOKE id by session S succeeds only if slot id of S's list holds an
\* OPEN invitation whose source is S; on success the invitation is removed
\* from both S's and the target's lists and the target is sent exactly one
\* REVOKED packet carrying the target's own local index; in every other case
\* (id out of range, empty slot, S is the target, invitation already accepted,
\* or invitation already revoked) S gets NACK and no list changes.
C15_RevokeRemoves ==
    \A c \in Conns, req \in Requests :
        (RecvReady(c) /\ req.type = "REVOKE")
        => LET d == Dispatch(World, c, req)
               out == d.w.out
               can == /\ HasInv(c, req.id)
                      /\ inv[client[c].invlist[req.id + 1]].state = "OPEN"
                      /\ inv[client[c].invlist[req.id + 1]].source = c
           IN  /\ d.ret = 0
                    => /\ can
                       /\ LET i == client[c].invlist[req.id + 1]
                              t == inv[i].target
                          IN  /\ \A x \in Conns :
                                   d.w.client[x].invlist = Without(client[x].invlist, i)
                              /\ Len(out) = 2
                              /\ out[1] = Pkt(t, "REVOKED", out[1].id, 0, NoPayload)
                              /\ out[1].id \in SlotsOf(client[t].invlist, i)
                              /\ t = c => out[1].id # FirstSlot(client[c].invlist, i)
                              /\ out[2] = Pkt(c, "ACK", 0, 0, NoPayload)
               /\ ~can
                    => /\ d.ret = -1
                       /\ out = <<Pkt(c, "NACK", 0, 0, NoPayload)>>
                       /\ d.w.client = client

\* a REVOKE is about to succeed on an invitation that the target holds at
\* another index than the source, and another REVOKE is about to be refused
C15_Witness ==
    /\ \E c \in Conns, req \in Requests :
         /\ RecvReady(c)
         /\ req.type = "REVOKE"
         /\ Dispatch(World, c, req).ret = 0
         /\ LET i == client[c].invlist[req.id + 1]
            IN  /\ inv[i].target # c
                /\ FirstSlot(client[inv[i].target].invlist, i) # req.id
    /\ \E c \in Conns, req \in Requests :
         /\ RecvReady(c)
         /\ req.type = "REVOKE"
         /\ HasInv(c, req.id)
         /\ Dispatch(World, c, req).ret = -1

\* C16: whenever no operation is in progress, every invitation stored in any
\* session's list appears at exactly one index of its source's list and at
\* exactly one index of its target's list, and in no other list.
C16_OneIndexEach ==
    \A i \in InvIds :
        (\E x \in Conns : SlotsOf(client[x].invlist, i) # {})
        => /\ inv[i] # NoInv
           /\ Cardinality(SlotsOf(client[inv[i].source].invlist, i)) = 1
           /\ Cardinality(SlotsOf(client[inv[i].target].invlist, i)) = 1
           /\ \A x \in Conns \ {inv[i].source, inv[i].target} :
                SlotsOf(client[x].invlist, i) = {}

\* C17: in every reachable state, an invitation in the ACCEPTED state holds a
\* game, and an invitation in the OPEN or CLOSED state holds either no game or
\* a game that has terminated.
C17_StateMatchesGame ==
    \A i \in InvIds :
        inv[i] # NoInv
        => /\ inv[i].state = "ACCEPTED" => inv[i].game # NoGame
           /\ inv[i].state \in {"OPEN", "CLOSED"}
                => (inv[i].game = NoGame \/ game_is_over(inv[i].game))

\* the changes of state an invitation may make
Transitions == {<<"OPEN", "ACCEPTED">>, <<"OPEN", "CLOSED">>, <<"ACCEPTED", "CLOSED">>}

\* C18: over any sequence of operations, each invitation's state only ever
\* changes OPEN to ACCEPTED, OPEN to CLOSED or ACCEPTED to CLOSED: a CLOSED
\* invitation never changes state again and an ACCEPTED invitation never
\* returns to OPEN.
C18_StateTransitions ==
    [][\A i \in InvIds :
         (inv[i] # NoInv /\ inv'[i] # NoInv /\ inv'[i].state # inv[i].state)
         => <<inv[i].state, inv'[i].state>> \in Transitions]_vars

\* an invitation has been accepted and then closed by a resignation, and is
\* still held in a list where further requests can name it
C18_Witness ==
    \E i \in InvIds, x \in Conns :
        /\ inv[i] # NoInv
        /\ inv[i].state = "CLOSED"
        /\ game_is_over(inv[i].game)
        /\ SlotsOf(client[x].invlist, i) # {}
        /\ RecvReady(x)

\* C19: an INVITE whose payload names the sender's own username is answered
\* with NACK and adds no invitation to any list: no invitation ever has the
\* same session as both source and target.
C19_NoSelfInvitation ==
    /\ \A c \in Conns, req \in Requests :
         (/\ RecvReady(c)
          /\ req.type = "INVITE"
          /\ FreeInv # {}
          /\ req.arg[1] = client[c].player)
         => LET d == Dispatch(World, c, req)
            IN  /\ d.w.out = <<Pkt(c, "NACK", 0, 0, NoPayload)>>
                /\ d.w.client = client
                /\ d.w.inv = inv
    /\ \A i \in InvIds : inv[i] # NoInv => inv[i].source # inv[i].target

\* C20: every invitation that exists has source_role and target_role both in
\* {1,2} and different from each other, whatever role byte (0..255) the INVITE
\* request carried; an INVITE whose role field is outside {1,2} is answered
\* with a single NACK and creates nothing.
C20_RolesValid ==
    /\ \A i \in InvIds :
         inv[i] # NoInv
         => /\ inv[i].source_role \in {FIRST_PLAYER_ROLE, SECOND_PLAYER_ROLE}
            /\ inv[i].target_role \in {FIRST_PLAYER_ROLE, SECOND_PLAYER_ROLE}
            /\ inv[i].source_role # inv[i].target_role
    /\ \A c \in Conns, req \in Requests :
         (/\ RecvReady(c)
          /\ req.type = "INVITE"
          /\ FreeInv # {}
          /\ req.role \notin {FIRST_PLAYER_ROLE, SECOND_PLAYER_ROLE})
         => LET d == Dispatch(World, c, req)
            IN  /\ d.w.out = <<Pkt(c, "NACK", 0, 0, NoPayload)>>
                /\ d.w.client = client
                /\ d.w.inv = inv

\* the thread of c is in its service loop with a packet to read
LoopReady(c) == pc[c] = "loop" /\ conn[c] = "open" /\ proto_recv_packet(c) = 0

\* C21: a request answered with NACK sends no packet to any session other than
\* the requester and leaves all invitation lists, invitation states, games and
\* ratings exactly as they were before the request, under any interleaving
\* with other sessions' requests.
C21_NackChangesNothing ==
    \A c \in Conns, req \in Requests :
        (LoopReady(c) /\ (req.type = "INVITE" => FreeInv # {}))
        => LET d == Dispatch(World, c, req)
               out == d.w.out
           IN  (\E n \in 1..Len(out) : out[n].to = c /\ out[n].type = "NACK")
               => /\ \A n \in 1..Len(out) : out[n].to = c
                  /\ \A x \in Conns : d.w.client[x].invlist = client[x].invlist
                  /\ d.w.inv = inv
                  /\ d.w.rating = rating

\* the request changes nothing and is answered with one NACK
Refused(c, d) ==
    /\ d.w.out = <<Pkt(c, "NACK", 0, 0, NoPayload)>>
    /\ d.w.client = client
    /\ d.w.inv = inv
    /\ d.w.rating = rating
    /\ d.w.posts = posts
    /\ d.preg = pregNames
    /\ d.login = login[c]

\* C22: for a session that has not completed a successful LOGIN, every request
\* of any type other than LOGIN is answered with NACK and changes no session,
\* invitation, game or registry state; once LOGIN has succeeded on a session,
\* every later LOGIN on that session is answered with NACK and leaves it
\* logged in as the same player.
C22_LoginGate ==
    \A c \in Conns, req \in Requests :
        LoopReady(c)
        => /\ (~login[c] /\ req.type # "LOGIN") => Refused(c, Dispatch(World, c, req))
           /\ (login[c] /\ req.type = "LOGIN")
                => /\ Refused(c, Dispatch(World, c, req))
                   /\ client[c].player # NoPlayer

\* one session is in its loop before any login while another, logged in, holds
\* an invitation
C22_Witness ==
    \E c, x \in Conns :
        /\ LoopReady(c)
        /\ ~login[c]
        /\ LoopReady(x)
        /\ login[x]
        /\ \E k \in 0..(Len(client[x].invlist) - 1) : ~SlotFree(client[x].invlist, k)

\* the responses in out: the packets of type ACK or NACK sent to c
Responses(out, c) ==
    {n \in 1..Len(out) : out[n].to = c /\ out[n].type \in {"ACK", "NACK"}}

\* C23: every request packet decoded by the service loop results in exactly
\* one response packet of type ACK or NACK being sent to the requesting
\* session: never none, never both.
C23_OneResponse ==
    \A c \in Conns, req \in Requests :
        (LoopReady(c) /\ (req.type = "INVITE" => FreeInv # {}))
        => Cardinality(Responses(Dispatch(World, c, req).w.out, c)) = 1

\* a RESIGN is about to succeed: the requester is sent ENDED and then its ACK;
\* and a request of another session is about to be refused
C23_Witness ==
    /\ \E c \in Conns, req \in Requests :
         /\ LoopReady(c)
         /\ req.type = "RESIGN"
         /\ LET d == Dispatch(World, c, req)
            IN  /\ d.ret = 0
                /\ EndedTo(d.w.out, c) # {}
    /\ \E c \in Conns, req \in Requests :
         /\ LoopReady(c)
         /\ req.type = "MOVE"
         /\ Dispatch(World, c, req).ret = -1

C25_WaitReturnsAtZero ==
    [][\A k \in Waiters :
         (th.wait[k] = "waiting" /\ th'.wait[k] = "returned")
         => /\ crCount = 0
            /\ crCount' = 0
            /\ \A t \in CregThreads : th.reg[t] \notin {"in", "unreg"}]_vars

\* a waiter that was blocked while a session was registered has returned after
\* the last session unregistered, while another thread is inside creg_register
C25_Witness ==
    /\ \E k \in th.drop : th.wait[k] = "returned"
    /\ \E t \in CregThreads : th.reg[t] = "count"

\* the command line has no -p followed by another argument
NoPortGiven ==
    \A k \in 1..(Len(th.args) - 1) : th.args[k] # "-p"

\* C26: started without a -p option, or with -p as the last argument and no
\* port after it, the process exits with a non-zero status without creating
\* the listening socket; exit status 0 is produced only by a clean shutdown
\* triggered by SIGHUP.
C26_UsageError ==
    /\ (NoPortGiven /\ pcMain = "exited") => (th.status # 0 /\ ~th.hup)
    /\ NoPortGiven => ~th.listening
    /\ (pcMain = "exited" /\ th.status = 0) => th.hup

\* thread t is in P, or about to call it, on a semaphore whose value is 0
Waiting(t) ==
    \/ At(t, "lock") /\ sem.cm[t] = 0
    \/ At(t, "ref") /\ th.asleep[t]
    \/ At(t, "unref") /\ sem.im = 0
    \/ At(t, "freeSource") /\ sem.cm[inv[th.i[t]].source] = 0
    \/ At(t, "freeTarget") /\ sem.cm[inv[th.i[t]].target] = 0

\* C27: no interleaving of requests of different sessions reaches a state in
\* which a thread waits forever on a lock: never does a thread wait in P while
\* every other thread has answered its request or waits in P as well, so that
\* no thread is left that could do the V.
C27_NoThreadWaitsForever ==
    ~ \E t \in RaceThreads :
          /\ Waiting(t)
          /\ \A u \in RaceThreads \ {t} : th.todo[u] = <<>> \/ Waiting(u)

\* thread t is between the P and the V of its handler on session c's mutex
Holds(t, c) == t = c /\ th.todo[t] # <<>> /\ ~At(t, "lock")

\* C28: a session's mutex is a binary lock: its value never exceeds 1, and a
\* thread that is about to search or to change a session's invitation list
\* holds that session's mutex.
C28_BinaryLock ==
    /\ \A c \in RaceThreads : sem.cm[c] <= 1
    /\ \A t \in RaceThreads :
         /\ At(t, "rmSelf") => Holds(t, t)
         /\ (At(t, "find") \/ At(t, "rmPeer")) => Holds(t, Opponent(t, th.i[t]))

\* both threads have answered: the source's REVOKE and the target's `type`
Raced(type) ==
    /\ \A t \in RaceThreads : th.todo[t] = <<>> /\ th.ans[t] \in {"ACK", "NACK"}
    /\ th.req[1].type = "REVOKE"
    /\ th.req[2].type = type
    /\ th.was = "OPEN"

\* C29: when the source's REVOKE and the target's ACCEPT or DECLINE of the
\* same OPEN invitation have run concurrently, at most one of them was
\* answered with ACK, and the invitation is in neither list, or it is
\* ACCEPTED and in both.
C29_RevokeAgainstAccept ==
    (Raced("ACCEPT") \/ Raced("DECLINE"))
    => /\ ~(th.ans[1] = "ACK" /\ th.ans[2] = "ACK")
       /\ \/ \A c \in RaceThreads : FirstSlot(client[c].invlist, 1) = -1
          \/ /\ inv[1].state = "ACCEPTED"
             /\ \A c \in RaceThreads : FirstSlot(client[c].invlist, 1) # -1

\* the ENDED packets written to x
EndedSent(x) == {n \in 1..Len(wire) : wire[n].to = x /\ wire[n].type = "ENDED"}

\* C30: under any interleaving of the two participants' MOVE and RESIGN on a
\* game, the result is posted at most once and each participant is sent at
\* most one ENDED.
C30_EndedOnce ==
    (\A t \in RaceThreads : th.req[t].type \in {"MOVE", "RESIGN"})
    => /\ posts <= 1
       /\ \A x \in RaceThreads : Cardinality(EndedSent(x)) <= 1

\* C31: every packet written carries the type, id, role and size that the
\* operation sending it computed, and its size field is the length of the
\* payload written after it.
C31_HeaderOfSender ==
    \A n \in 1..Len(wire) :
        /\ wire[n].hdr = Computed(th.call[wire[n].by])
        /\ wire[n].hdr.size = Len(wire[n].payload)

\* C32: a REVOKED, DECLINED or ENDED packet is sent only after the invitation
\* has been removed from the recipient's list, in every handler alike: no such
\* packet has been written to a session whose list still holds the invitation.
C32_RemovedBeforeNotified ==
    \A n \in 1..Len(wire) :
        wire[n].type \in {"REVOKED", "DECLINED", "ENDED"}
        => FirstSlot(client[wire[n].to].invlist, 1) = -1

\* C33: no thread takes the send lock while it holds a session's mutex: a
\* thread that is about to call client_send_packet holds none.
C33_NoSendUnderSessionLock ==
    \A t \in RaceThreads :
        (At(t, "notify") \/ At(t, "endSelf") \/ At(t, "endPeer"))
        => \A c \in RaceThreads : ~Holds(t, c)

\* C34: a MOVE by the participant whose role is not the one on the move is
\* answered with NACK and leaves the game as it was.
C34_OutOfTurnRejected ==
    \A c \in Conns, req \in Requests :
        (/\ RecvReady(c)
         /\ req.type = "MOVE"
         /\ HasInv(c, req.id)
         /\ ProperGame(client[c].invlist[req.id + 1])
         /\ RoleIn(c, client[c].invlist[req.id + 1])
              # inv[client[c].invlist[req.id + 1]].game.nextmover)
        => LET i == client[c].invlist[req.id + 1]
               d == Dispatch(World, c, req)
           IN  /\ \E n \in 1..Len(d.w.out) : d.w.out[n].to = c /\ d.w.out[n].type = "NACK"
               /\ d.w.inv[i].game = inv[i].game

\* the rows, columns and diagonals of the board
Lines == {{1, 2, 3}, {4, 5, 6}, {7, 8, 9}, {1, 4, 7}, {2, 5, 8}, {3, 6, 9},
          {1, 5, 9}, {3, 5, 7}}

\* role r holds all three cells of some line
Owns(board, r) == \E l \in Lines : \A k \in l : board[k] = r

Full(board) == \A k \in 1..9 : board[k] # 0

\* C35: after every successful move the game is over exactly when a line is
\* complete or the board is full; the winner is the role that owns a
\* complete line whenever there is one, also when the completing move fills
\* the last cell; the result is a draw only when the board is full and no
\* line is complete.
C35_WinnerOwnsLine ==
    LET g == th.game
        line == \E r \in {1, 2} : Owns(g.board, r)
    IN  /\ game_is_over(g) <=> (line \/ Full(g.board))
        /\ \A r \in {1, 2} : Owns(g.board, r) => game_get_winner(g) = r
        /\ game_get_winner(g) = 0 => (Full(g.board) /\ ~line)

\* the number a move string names: its leading decimal digits (two at most here)
IsDigit(ch) == ch \in {"0", "1", "2", "3", "4", "5", "6", "7", "8", "9"}

CellNamed(str) ==
    IF Len(str) = 0 \/ ~IsDigit(str[1]) THEN 0
    ELSE IF Len(str) >= 2 /\ IsDigit(str[2]) THEN 10 * Atoi1(str[1]) + Atoi1(str[2])
    ELSE Atoi1(str[1])

\* the move strings a client may send: those of Requests, and "10"
MoveStrings == Moves \cup {<<"1", "0">>}

\* C36: a MOVE that names an occupied cell or a cell outside 1-9, or that is
\* sent for a game already over, is answered with NACK, sends no MOVED and
\* leaves the game (board, role to move, winner) as it was.
C36_BadMoveRejected ==
    \A c \in Conns, id \in IdBytes, m \in MoveStrings :
        (/\ RecvReady(c)
         /\ HasInv(c, id)
         /\ inv[client[c].invlist[id + 1]].game # NoGame
         /\ LET g == inv[client[c].invlist[id + 1]].game
            IN  \/ game_is_over(g)
                \/ CellNamed(m) \notin 1..9
                \/ g.board[CellNamed(m)] # 0)
        => LET i == client[c].invlist[id + 1]
               d == Dispatch(World, c, Req("MOVE", id, 0, m))
           IN  /\ \E n \in 1..Len(d.w.out) : d.w.out[n].to = c /\ d.w.out[n].type = "NACK"
               /\ \A n \in 1..Len(d.w.out) : d.w.out[n].type # "MOVED"
               /\ d.w.inv[i].game = inv[i].game

\* C37: once a session's logout and unregistration are complete, its own
\* invitation list is empty and no list of a session still served holds an
\* invitation whose source or target it is.
C37_GoneFromAllLists ==
    \A c \in Conns :
        (pc[c] = "done" /\ conn[c] = "closed")
        => /\ \A k \in 1..Len(client[c].invlist) : client[c].invlist[k] = NoInvId
           /\ \A x \in Conns : \A k \in 1..Len(client[x].invlist) :
                (pc[x] = "loop" /\ client[x].invlist[k] # NoInvId)
                => /\ inv[client[x].invlist[k]].source # c
                   /\ inv[client[x].invlist[k]].target # c

\* C38: creg_register never waits without end: no thread is inside
\* creg_register, holding the registry's mutex, in P(&cr->empty) with the
\* semaphore at 0, where only a creg_unregister, which needs that mutex,
\* could do the V.
C38_RegisterNeverBlocks ==
    \A t \in CregThreads :
        ~(th.reg[t] = "count" /\ crCount = 0 /\ crEmpty = 0 /\ sem.crMutex = 0)

\* the lowest empty slot of list l, or its length when it has none
LowestFree(l) ==
    IF \E k \in 0..(Len(l) - 1) : l[k + 1] = NoInvId
    THEN CHOOSE k \in 0..(Len(l) - 1) :
             l[k + 1] = NoInvId /\ \A j \in 0..(k - 1) : l[j + 1] # NoInvId
    ELSE Len(l)

\* C39: client_add_invitation stores the invitation in the lowest empty slot
\* and returns that index, the list growing by a block of 10 when it has no
\* empty slot; client_remove_invitation empties one slot holding the
\* invitation and returns its index, or returns -1 and changes nothing when
\* no slot holds it; every other slot keeps its content, and an add after a
\* removal takes the freed index when that is the lowest empty one.
C39_LowestSlotReused ==
    \A i \in ListInvs, j \in ListInvs :
        LET l0 == client[1].invlist
            a == client_add_invitation(World, 1, i)
            la == a.w.client[1].invlist
            r == client_remove_invitation(World, 1, i)
            lr == r.w.client[1].invlist
            b == client_add_invitation(r.w, 1, j)
        IN  /\ a.ret = LowestFree(l0)
            /\ Len(la) = IF LowestFree(l0) = Len(l0) THEN Len(l0) + 10 ELSE Len(l0)
            /\ Stored(l0, la, i, {a.ret})
            /\ IF SlotsOf(l0, i) = {}
               THEN r.ret = -1 /\ lr = l0
               ELSE /\ r.ret \in SlotsOf(l0, i)
                    /\ lr = [l0 EXCEPT ![r.ret + 1] = NoInvId]
                    /\ r.ret < LowestFree(l0) => b.ret = r.ret

\* the list was full and an add has grown it by a block and used the first
\* new slot
C39_Witness ==
    LET l == client[1].invlist
    IN  /\ Len(l) = 2 * ListBlock
        /\ l[ListBlock + 1] # NoInvId
        /\ \A k \in 1..ListBlock : l[k] # NoInvId

\* the slots of the registry that hold a CLIENT
Occupied == {k \in 1..MAX_CLIENTS : crBuf[k] # NoClient}

\* no call is inside the registry's critical section
CregQuiet == sem.crMutex = 1

\* the step in which thread t leaves the label at
Leaves(t, at) == th.reg[t] = at /\ th'.reg[t] # at

\* C40: for any interleaving of creg_register and creg_unregister, between
\* the calls' critical sections the registry's count is the number of
\* occupied slots and is at most MAX_CLIENTS; a creg_register that finds the
\* registry full returns NULL and leaves slots, count and semaphore as they
\* were, and nothing is written to the connection; a creg_unregister of a
\* CLIENT in no slot returns -1 and leaves slots and count as they were.
C40_CountIsOccupied ==
    /\ [](CregQuiet => crCount = Cardinality(Occupied) /\ crCount <= MAX_CLIENTS)
    /\ [][\A t \in CregThreads :
            /\ Leaves(t, "reg") /\ FreeSlots = {}
                 => /\ th'.reg[t] = "idle" /\ th'.ret[t].register = "NULL"
                    /\ UNCHANGED <<crBuf, crCount, crEmpty, wire>>
            /\ Leaves(t, "absent") /\ (\A k \in 1..MAX_CLIENTS : crBuf[k] # t)
                 => /\ th'.reg[t] = "idle" /\ th'.ret[t].unregister = "-1"
                    /\ UNCHANGED <<crBuf, crCount>>]_vars

\* the registry is full, a creg_register has returned NULL and a
\* creg_unregister of an unregistered CLIENT has returned -1
C40_Witness ==
    /\ CregQuiet
    /\ crCount = MAX_CLIENTS
    /\ FreeSlots = {}
    /\ \E t \in CregThreads : th.ret[t] = [register |-> "NULL", unregister |-> "-1"]

====
